---- MODULE Spec2Model ----
(***************************************************************************)
(* Model of the grant-tracker budget ledger.                               *)
(*                                                                         *)
(*   - the ledger store: the IPC handlers of src/main/main.ts, each one a  *)
(*     read-modify-write of the whole persisted document;                  *)
(*   - the budget category calculator and the two budget editors of the    *)
(*     renderer (components/BudgetForm.tsx and pages/Grants.tsx).          *)
(*                                                                         *)
(* Numbers are integers (the program's decimals are abstracted to whole    *)
(* amounts).  A JavaScript object is a record; an absent property is a     *)
(* field outside the record's DOMAIN.  A calendar-date string yyyy-MM-dd   *)
(* is the tuple <<y, m, d>> and the empty string is <<>>.                  *)
(***************************************************************************)
EXTENDS Integers, Sequences, FiniteSets, TLC

VARIABLES
    grants,                 \* persisted document: data.grants
    expenses,               \* persisted document: data.expenses
    nextId,                 \* source of generateId() values
    now,                    \* source of new Date().toISOString() values
    last,                   \* the last handler call: operation, arguments, outcome
    budgets,                \* BudgetForm: useState budgets
    formBudgetCategories,   \* Grants page: useState formBudgetCategories
    formTotalAmount,        \* Grants page: formData.totalAmount, <<>> when empty
    selectedGrantForBudget, \* Grants page: grant whose BudgetForm is open, 0 for null
    calc,                   \* calculator under test: input category and outputs
    grant,                  \* GrantDetail: useState grant
    expenseForm,            \* GrantDetail: useState expenseForm
    parsedData,             \* BudgetUpload: useState parsedData
    columnMapping,          \* BudgetUpload: useState columnMapping
    categoryMapping,        \* BudgetUpload: useState categoryMapping
    formExpenses,           \* ExpenseForm: useState expenses
    selectedGrantForExpense, \* Grants page: grant whose ExpenseForm is open, 0 for null
    pageGrants,             \* Grants page: useState grants, as loadGrants set it
    saving,                 \* Grants page: position of handleSaveExpense in its loop
    dialogs                 \* import calls suspended in await dialog.showOpenDialog

vars == <<grants, expenses, nextId, now, last, budgets, formBudgetCategories,
          formTotalAmount, selectedGrantForBudget, calc, grant, expenseForm,
          parsedData, columnMapping, categoryMapping, formExpenses,
          selectedGrantForExpense, pageGrants, saving, dialogs>>

ledgerVars == <<grants, expenses, nextId, now>>
editorVars == <<budgets, formBudgetCategories, formTotalAmount, selectedGrantForBudget>>
detailVars == <<grant, expenseForm>>
uploadVars == <<parsedData, columnMapping, categoryMapping>>
expenseFormVars == <<formExpenses, selectedGrantForExpense, pageGrants, saving>>
pageVars == <<detailVars, uploadVars, expenseFormVars, dialogs>>

(***************************************************************************)
(* Bounds                                                                  *)
(***************************************************************************)
MaxWrites == 2       \* document writes in a run of the ledger store
MaxQueryWrites == 1  \* document writes in a run of the query layer
MaxBudgetWrites == 1 \* document writes in a run of the budget editor
MaxBudgets == 1      \* categories added in a BudgetForm session
MaxFormBudgets == 1  \* categories added in the new-grant form
MaxParam == 2        \* largest rate / quantity drawn for the calculator
MaxImports == 1      \* document writes in a run of the structured import
MaxRows == 2         \* rows of an imported sheet
MaxUploadRows == 2   \* rows of a sheet uploaded to the flat category import
MaxDialogs == 1      \* calls of the structured import in a run with other requests
MaxFormExpenses == 1 \* expenses added in an ExpenseForm session

(***************************************************************************)
(* JavaScript helpers                                                      *)
(***************************************************************************)
\* object spread { ...a, ...b }: b's properties override a's
Merge(a, b) ==
    [k \in (DOMAIN a) \cup (DOMAIN b) |-> IF k \in DOMAIN b THEN b[k] ELSE a[k]]

\* value || dflt on a numeric property: undefined and 0 are both falsy
OrDefault(obj, field, dflt) ==
    IF field \in DOMAIN obj /\ obj[field] # 0 THEN obj[field] ELSE dflt

\* Array.prototype.findIndex on the id property, 1-based; 0 when not found
FindIndex(arr, id) ==
    IF \E i \in 1..Len(arr) : arr[i].id = id
    THEN CHOOSE i \in 1..Len(arr) :
             /\ arr[i].id = id
             /\ \A j \in 1..(i - 1) : arr[j].id # id
    ELSE 0

\* Array.prototype.splice(index, 1)
Splice(arr, i) ==
    [j \in 1..(Len(arr) - 1) |-> IF j < i THEN arr[j] ELSE arr[j + 1]]

\* arr[i] = v
SetAt(arr, i, v) == [arr EXCEPT ![i] = v]

\* the JavaScript value null
Null == [null |-> TRUE]

\* A text that the program parses is the sequence of its characters.
Digits == <<"0", "1", "2", "3", "4", "5", "6", "7", "8", "9">>

IsDigit(c) == \E d \in 1..10 : Digits[d] = c

DigitValue(c) == (CHOOSE d \in 1..10 : Digits[d] = c) - 1

\* Number.prototype.toString of a whole number
RECURSIVE NatToString(_)
NatToString(n) ==
    IF n < 10 THEN <<Digits[n + 1]>>
    ELSE NatToString(n \div 10) \o <<Digits[(n % 10) + 1]>>

NumberToString(n) == IF n < 0 THEN <<"-">> \o NatToString(0 - n) ELSE NatToString(n)

\* text.replace(/[^0-9.-]/g, '')
StripNonNumeric(text) ==
    SelectSeq(text, LAMBDA c : IsDigit(c) \/ c = "." \/ c = "-")

\* the value of a run of digits
RECURSIVE DigitsValue(_)
DigitsValue(text) ==
    IF text = <<>> THEN 0
    ELSE 10 * DigitsValue(SubSeq(text, 1, Len(text) - 1)) + DigitValue(text[Len(text)])

\* the length of the longest prefix of text made of digits
RECURSIVE LeadingDigits(_)
LeadingDigits(text) ==
    IF text = <<>> \/ ~IsDigit(Head(text)) THEN 0
    ELSE 1 + LeadingDigits(Tail(text))

\* the result of parseFloat: a number, or NaN
NotANumber == [nan |-> TRUE]
Number(n) == [nan |-> FALSE, val |-> n]

\* parseFloat: an optional sign and the longest run of digits after it; NaN
\* when there is no digit there
parseFloat(text) ==
    LET negative == text # <<>> /\ Head(text) = "-"
        body == IF negative THEN Tail(text) ELSE text
        n == LeadingDigits(body)
        value == DigitsValue(SubSeq(body, 1, n))
    IN IF n = 0 THEN NotANumber
       ELSE Number(IF negative THEN 0 - value ELSE value)

\* item.amount > 0: false for NaN
GreaterThanZero(parsed) == ~parsed.nan /\ parsed.val > 0

\* format(new Date(), 'yyyy-MM-dd'): the day of the run
Today == <<2025, 1, 15>>

\* the renderer's pages before any of them is opened, and no import suspended
PagesIdle ==
    /\ grant = Null
    /\ expenseForm = [description |-> "", amount |-> <<>>, category |-> "",
                      date |-> Today, notes |-> ""]
    /\ parsedData = <<>>
    /\ columnMapping = [description |-> "", amount |-> "", category |-> ""]
    /\ categoryMapping = <<>>
    /\ formExpenses = <<>>
    /\ selectedGrantForExpense = 0
    /\ pageGrants = <<>>
    /\ saving = [index |-> 0]
    /\ dialogs = <<>>

(***************************************************************************)
(* Budget category calculator                                              *)
(***************************************************************************)
\* budget.type; a category without the property has type undefined
TypeOf(budget) == IF "type" \in DOMAIN budget THEN budget.type ELSE "undefined"

\* calculateAmount with a missing student count taken as 0
calculateAmountMissingZero(budget) ==
    CASE TypeOf(budget) \in {"pi_salary", "student_salary"} ->
             LET monthlyTotal == OrDefault(budget, "monthlyRate", 0)
                                 * OrDefault(budget, "numberOfMonths", 0)
             IN IF TypeOf(budget) = "student_salary"
                THEN monthlyTotal * OrDefault(budget, "numberOfStudents", 0)
                ELSE monthlyTotal
      [] TypeOf(budget) = "tuition" ->
             OrDefault(budget, "yearlyRate", 0) * OrDefault(budget, "numberOfYears", 1)
             * OrDefault(budget, "numberOfStudents", 0)
      [] TypeOf(budget) = "travel" ->
             OrDefault(budget, "costPerTrip", 0) * OrDefault(budget, "numberOfTrips", 1)
      [] OTHER -> OrDefault(budget, "amount", 0)

\* BudgetForm.tsx calculateAmount
calculateAmount(budget) ==
    CASE TypeOf(budget) \in {"pi_salary", "student_salary"} ->
             LET monthlyTotal == OrDefault(budget, "monthlyRate", 0)
                                 * OrDefault(budget, "numberOfMonths", 0)
             IN IF TypeOf(budget) = "student_salary"
                THEN monthlyTotal * OrDefault(budget, "numberOfStudents", 1)
                ELSE monthlyTotal
      [] TypeOf(budget) = "tuition" ->
             OrDefault(budget, "yearlyRate", 0) * OrDefault(budget, "numberOfYears", 1)
             * OrDefault(budget, "numberOfStudents", 1)
      [] TypeOf(budget) = "travel" ->
             OrDefault(budget, "costPerTrip", 0) * OrDefault(budget, "numberOfTrips", 1)
      [] OTHER -> OrDefault(budget, "amount", 0)

\* Grants.tsx calculateBudgetAmount
calculateBudgetAmount(budget) ==
    CASE TypeOf(budget) \in {"pi_salary", "student_salary"} ->
             LET monthlyTotal == OrDefault(budget, "monthlyRate", 0)
                                 * OrDefault(budget, "numberOfMonths", 0)
             IN IF TypeOf(budget) = "student_salary"
                THEN monthlyTotal * OrDefault(budget, "numberOfStudents", 1)
                ELSE monthlyTotal
      [] TypeOf(budget) = "tuition" ->
             OrDefault(budget, "yearlyRate", 0) * OrDefault(budget, "numberOfYears", 1)
             * OrDefault(budget, "numberOfStudents", 1)
      [] TypeOf(budget) = "travel" ->
             OrDefault(budget, "costPerTrip", 0) * OrDefault(budget, "numberOfTrips", 1)
      [] OTHER -> OrDefault(budget, "amount", 0)

DerivableTypes == {"pi_salary", "student_salary", "tuition", "travel"}
FlatTypes == {"materials", "publication", "indirect", "other"}

\* the type-specific parameters of the BudgetCategory interface
ParamFields(type) ==
    CASE type = "pi_salary" -> {"monthlyRate", "numberOfMonths"}
      [] type = "student_salary" -> {"monthlyRate", "numberOfMonths", "numberOfStudents"}
      [] type = "tuition" -> {"yearlyRate", "numberOfYears", "numberOfStudents"}
      [] type = "travel" -> {"numberOfTrips", "costPerTrip"}
      [] OTHER -> {"amount"}

\* numbers a caller may supply: negative, zero, positive
ParamValues == (-1)..MaxParam

\* every category of a type: each parameter absent or any value
CategoriesOfType(type) ==
    UNION { { Merge([type |-> type], f) : f \in [present -> ParamValues] } :
            present \in SUBSET ParamFields(type) }

CalcInputs == UNION { CategoriesOfType(t) : t \in DerivableTypes \cup FlatTypes }

InitCalc ==
    /\ calc \in { [done |-> FALSE, budget |-> b] : b \in CalcInputs }
    /\ grants = <<>>
    /\ expenses = <<>>
    /\ nextId = 1
    /\ now = 1
    /\ last = [op |-> "none", ok |-> TRUE]
    /\ budgets = <<>>
    /\ formBudgetCategories = <<>>
    /\ formTotalAmount = <<>>
    /\ selectedGrantForBudget = 0
    /\ PagesIdle

Calculate ==
    /\ ~calc.done
    /\ calc' = [done |-> TRUE, budget |-> calc.budget,
                amount |-> calculateAmount(calc.budget),
                formAmount |-> calculateBudgetAmount(calc.budget)]
    /\ UNCHANGED <<ledgerVars, last, editorVars, pageVars>>

NextCalc == Calculate

SpecCalc == InitCalc /\ [][NextCalc]_vars

(***************************************************************************)
(* Dates: new Date(s).getTime() for a date-only string, in days            *)
(***************************************************************************)
NaN == -1

DaysBeforeMonth(m) ==
    CASE m = 1 -> 0   [] m = 2 -> 31  [] m = 3 -> 59  [] m = 4 -> 90
      [] m = 5 -> 120 [] m = 6 -> 151 [] m = 7 -> 181 [] m = 8 -> 212
      [] m = 9 -> 243 [] m = 10 -> 273 [] m = 11 -> 304 [] m = 12 -> 334

IsLeap(y) == (y % 4 = 0 /\ y % 100 # 0) \/ y % 400 = 0

\* whole days from 1970-01-01 (UTC midnight) to the given calendar date
GetTime(s) ==
    IF Len(s) # 3 THEN NaN
    ELSE LET y == s[1]
             m == s[2]
             d == s[3]
             leaps == ((y - 1969) \div 4) - ((y - 1901) \div 100) + ((y - 1601) \div 400)
         IN (y - 1970) * 365 + leaps + DaysBeforeMonth(m)
            + (IF m > 2 /\ IsLeap(y) THEN 1 ELSE 0) + (d - 1)

\* new Date(expense.date).getTime(); a missing date is new Date(undefined)
DateOf(e) == IF "date" \in DOMAIN e THEN GetTime(e.date) ELSE NaN

\* a >= b and a <= b on Date objects: false whenever either side is NaN
DateGe(a, b) == a # NaN /\ b # NaN /\ a >= b
DateLe(a, b) == a # NaN /\ b # NaN /\ a <= b

\* Array.prototype.sort with the comparator getTime(a) - getTime(b): a stable
\* sort, here insertion of each element after the elements not later than it
RECURSIVE SortByDate(_)
SortByDate(arr) ==
    IF Len(arr) <= 1 THEN arr
    ELSE LET sorted == SortByDate(SubSeq(arr, 1, Len(arr) - 1))
             x == arr[Len(arr)]
             \* comparator(x, y) < 0; a comparator result of NaN counts as 0
             before(y) == DateOf(x) # NaN /\ DateOf(y) # NaN /\ DateOf(x) - DateOf(y) < 0
             \* the k elements at the tail of sorted that x sorts before
             k == Cardinality({i \in 1..Len(sorted) :
                                  \A j \in i..Len(sorted) : before(sorted[j]) })
             n == Len(sorted) - k
         IN SubSeq(sorted, 1, n) \o <<x>> \o SubSeq(sorted, n + 1, Len(sorted))

(***************************************************************************)
(* Inputs of the ledger handlers                                           *)
(***************************************************************************)
D1 == <<2024, 12, 31>>
D2 == <<2025, 1, 15>>
D3 == <<2025, 2, 1>>
D4 == <<2025, 1, 31>>

\* a document written by an earlier run of the program (initializeData keeps
\* an existing file): two grants, one with a budget category saved from the
\* BudgetForm, and three expenses
StoredGrants ==
    << [id |-> 1, title |-> "G1", budgetCategories |-> <<>>, createdAt |-> 0, updatedAt |-> 0],
       [id |-> 2, title |-> "G2", createdAt |-> 0, updatedAt |-> 0,
        budgetCategories |->
            << [id |-> 50, category |-> "Travel", type |-> "travel", amount |-> 4,
                createdAt |-> 0, description |-> "", notes |-> "", fiscalYear |-> 0,
                numberOfTrips |-> 2, costPerTrip |-> 2] >>] >>

StoredExpenses ==
    << [id |-> 3, grantId |-> 1, description |-> "E1", amount |-> 5, date |-> D2,
        createdAt |-> 0, updatedAt |-> 0],
       [id |-> 4, grantId |-> 1, description |-> "E2", amount |-> 7, date |-> D1,
        createdAt |-> 0, updatedAt |-> 0],
       [id |-> 5, grantId |-> 2, description |-> "E3", amount |-> 2, date |-> D3,
        createdAt |-> 0, updatedAt |-> 0] >>

\* ids a caller may pass: every id in the store and one that is not
IdArgs(arr) == {arr[i].id : i \in 1..Len(arr)} \cup {nextId}

GrantDataInputs ==
    { [title |-> "G3"],
      [title |-> "G4", id |-> 1, budgetCategories |-> <<>>] }

\* Partial<Grant>: a new title, another id, or the expenses property of a grant
\* object that getAll returned
GrantPartialInputs ==
    { [title |-> "renamed"],
      [id |-> 2],
      [expenses |-> <<>>] }

\* expense data for any grant id, and one without a date
ExpenseDataInputs(gids) ==
    { [grantId |-> g, description |-> "E", amount |-> 3, date |-> D2] : g \in gids }
    \cup { [grantId |-> 2, description |-> "E", amount |-> 3] }

ExpensePartialInputs(gids) ==
    { [date |-> D4], [date |-> <<>>] } \cup { [grantId |-> g] : g \in gids }

DateArgs == {D1, D2, D4, <<>>}

GrantIdsArgs ==
    { [supplied |-> FALSE] }
    \cup { [supplied |-> TRUE, ids |-> s] : s \in {<<>>, <<1>>, <<2, 1>>} }

(***************************************************************************)
(* Ledger store handlers (src/main/main.ts)                                *)
(***************************************************************************)
\* the clock starts at 1 and ticks once per write
Write == now <= MaxWrites

grantsCreate(grantData) ==
    /\ Write
    /\ LET newGrant == Merge(grantData,
                          [id |-> nextId, createdAt |-> now, updatedAt |-> now,
                           budgetCategories |->
                               IF "budgetCategories" \in DOMAIN grantData
                               THEN grantData.budgetCategories ELSE <<>>])
       IN /\ grants' = Append(grants, newGrant)
          /\ last' = [op |-> "grants:create", ok |-> TRUE, arg |-> grantData,
                      ret |-> newGrant]
    /\ nextId' = nextId + 1
    /\ now' = now + 1
    /\ UNCHANGED expenses

\* the second grants:create of main.ts: the same, without the budgetCategories
\* default
grantsCreateSecondCopy(grantData) ==
    /\ Write
    /\ LET newGrant == Merge(grantData,
                          [id |-> nextId, createdAt |-> now, updatedAt |-> now])
       IN /\ grants' = Append(grants, newGrant)
          /\ last' = [op |-> "grants:create", ok |-> TRUE, arg |-> grantData,
                      ret |-> newGrant]
    /\ nextId' = nextId + 1
    /\ now' = now + 1
    /\ UNCHANGED expenses

\* grants:update that stores the data as a new grant when the id is unknown
grantsUpdateUpsert(id, grantData) ==
    LET grantIndex == FindIndex(grants, id)
    IN /\ Write
       /\ LET g == IF grantIndex > 0
                   THEN Merge(Merge(grants[grantIndex], grantData), [updatedAt |-> now])
                   ELSE Merge(Merge([id |-> id], grantData), [updatedAt |-> now])
          IN /\ grants' = IF grantIndex > 0 THEN SetAt(grants, grantIndex, g)
                          ELSE Append(grants, g)
             /\ last' = [op |-> "grants:update", ok |-> grantIndex > 0, id |-> id,
                         arg |-> grantData, ret |-> g]
       /\ now' = now + 1
       /\ UNCHANGED <<expenses, nextId>>

\* grants:update that replaces the stored grant by the data instead of merging
grantsUpdateReplace(id, grantData) ==
    LET grantIndex == FindIndex(grants, id)
    IN IF grantIndex > 0
       THEN /\ Write
            /\ LET g == Merge(Merge([id |-> id], grantData), [updatedAt |-> now])
               IN /\ grants' = SetAt(grants, grantIndex, g)
                  /\ last' = [op |-> "grants:update", ok |-> TRUE, id |-> id,
                              arg |-> grantData, ret |-> g]
            /\ now' = now + 1
            /\ UNCHANGED <<expenses, nextId>>
       ELSE /\ last' = [op |-> "grants:update", ok |-> FALSE, id |-> id]
            /\ UNCHANGED ledgerVars

grantsUpdate(id, grantData) ==
    LET grantIndex == FindIndex(grants, id)
    IN IF grantIndex > 0
       THEN /\ Write
            /\ LET g == Merge(Merge(grants[grantIndex], grantData), [updatedAt |-> now])
               IN /\ grants' = SetAt(grants, grantIndex, g)
                  /\ last' = [op |-> "grants:update", ok |-> TRUE, id |-> id,
                              arg |-> grantData, ret |-> g]
            /\ now' = now + 1
            /\ UNCHANGED <<expenses, nextId>>
       ELSE /\ last' = [op |-> "grants:update", ok |-> FALSE, id |-> id]
            /\ UNCHANGED ledgerVars

\* grants:delete without the cascade to the expenses
grantsDeleteNoCascade(id) ==
    LET grantIndex == FindIndex(grants, id)
    IN IF grantIndex > 0
       THEN /\ Write
            /\ grants' = Splice(grants, grantIndex)
            /\ last' = [op |-> "grants:delete", ok |-> TRUE, id |-> id,
                        ret |-> grants[grantIndex]]
            /\ now' = now + 1
            /\ UNCHANGED <<expenses, nextId>>
       ELSE /\ last' = [op |-> "grants:delete", ok |-> FALSE, id |-> id]
            /\ UNCHANGED ledgerVars

grantsDelete(id) ==
    LET grantIndex == FindIndex(grants, id)
    IN IF grantIndex > 0
       THEN /\ Write
            /\ grants' = Splice(grants, grantIndex)
            /\ expenses' = SelectSeq(expenses, LAMBDA exp : exp.grantId # id)
            /\ last' = [op |-> "grants:delete", ok |-> TRUE, id |-> id,
                        ret |-> grants[grantIndex]]
            /\ now' = now + 1
            /\ UNCHANGED nextId
       ELSE /\ last' = [op |-> "grants:delete", ok |-> FALSE, id |-> id]
            /\ UNCHANGED ledgerVars

expensesCreate(expenseData) ==
    /\ Write
    /\ LET newExpense == Merge(expenseData,
                            [id |-> nextId, createdAt |-> now, updatedAt |-> now])
       IN /\ expenses' = Append(expenses, newExpense)
          /\ last' = [op |-> "expenses:create", ok |-> TRUE, ret |-> newExpense]
    /\ nextId' = nextId + 1
    /\ now' = now + 1
    /\ UNCHANGED grants

expensesUpdate(id, expenseData) ==
    LET expenseIndex == FindIndex(expenses, id)
    IN IF expenseIndex > 0
       THEN /\ Write
            /\ LET e == Merge(Merge(expenses[expenseIndex], expenseData), [updatedAt |-> now])
               IN /\ expenses' = SetAt(expenses, expenseIndex, e)
                  /\ last' = [op |-> "expenses:update", ok |-> TRUE, id |-> id, ret |-> e]
            /\ now' = now + 1
            /\ UNCHANGED <<grants, nextId>>
       ELSE /\ last' = [op |-> "expenses:update", ok |-> FALSE, id |-> id]
            /\ UNCHANGED ledgerVars

expensesDelete(id) ==
    LET expenseIndex == FindIndex(expenses, id)
    IN IF expenseIndex > 0
       THEN /\ Write
            /\ expenses' = Splice(expenses, expenseIndex)
            /\ last' = [op |-> "expenses:delete", ok |-> TRUE, id |-> id,
                        ret |-> expenses[expenseIndex]]
            /\ now' = now + 1
            /\ UNCHANGED <<grants, nextId>>
       ELSE /\ last' = [op |-> "expenses:delete", ok |-> FALSE, id |-> id]
            /\ UNCHANGED ledgerVars

\* grants:getAll that lets an expenses property stored in the grant win
getAllStoredFirst ==
    [i \in 1..Len(grants) |->
        Merge([expenses |-> SelectSeq(expenses, LAMBDA exp : exp.grantId = grants[i].id)],
              grants[i])]

\* grants:getAll: every grant joined with the expenses filtered on its id
getAll ==
    [i \in 1..Len(grants) |->
        Merge(grants[i],
              [expenses |-> SelectSeq(expenses, LAMBDA exp : exp.grantId = grants[i].id)])]

grantsGetAll ==
    /\ last' = [op |-> "grants:getAll", ok |-> TRUE, ret |-> getAll]
    /\ UNCHANGED ledgerVars

\* grantIds.includes(id)
Includes(ids, id) == \E i \in 1..Len(ids) : ids[i] = id

\* the grant filter with an empty list taken as no filter
GrantMatchEmptyIsAll(grantIds, expense) ==
    \/ ~grantIds.supplied
    \/ grantIds.ids = <<>>
    \/ Includes(grantIds.ids, expense.grantId)

\* !grantIds || grantIds.includes(expense.grantId): an empty array is truthy
GrantMatch(grantIds, expense) ==
    ~grantIds.supplied \/ Includes(grantIds.ids, expense.grantId)

\* the reduce() that indexes grants by id: a later grant overwrites an earlier
\* one with the same id; grants[expense.grantId] || null
GrantById(gs, id) ==
    IF \E i \in 1..Len(gs) : gs[i].id = id
    THEN gs[CHOOSE i \in 1..Len(gs) :
                /\ gs[i].id = id
                /\ \A j \in (i + 1)..Len(gs) : gs[j].id # id]
    ELSE Null

\* the range test with the end date excluded
DateInRangeEndExclusive(expense, startDate, endDate) ==
    /\ DateGe(DateOf(expense), GetTime(startDate))
    /\ DateLe(DateOf(expense), GetTime(endDate))
    /\ DateOf(expense) # GetTime(endDate)

DateInRange(expense, startDate, endDate) ==
    /\ DateGe(DateOf(expense), GetTime(startDate))
    /\ DateLe(DateOf(expense), GetTime(endDate))

getByDateRange(startDate, endDate, grantIds) ==
    LET filtered == SelectSeq(expenses, LAMBDA expense :
                        DateInRange(expense, startDate, endDate)
                        /\ GrantMatch(grantIds, expense))
        mapped == [i \in 1..Len(filtered) |->
                      Merge(filtered[i], [grant |-> GrantById(grants, filtered[i].grantId)])]
    IN SortByDate(mapped)

expensesGetByDateRange(startDate, endDate, grantIds) ==
    /\ last' = [op |-> "expenses:getByDateRange", ok |-> TRUE,
                startDate |-> startDate, endDate |-> endDate, grantIds |-> grantIds,
                ret |-> getByDateRange(startDate, endDate, grantIds)]
    /\ UNCHANGED ledgerVars

(***************************************************************************)
(* The ledger store: every handler, called with any argument               *)
(***************************************************************************)
NoCall == [op |-> "none", ok |-> TRUE]

\* the largest id in a document, plus one
FreeId(gs, es) ==
    LET ids == {gs[i].id : i \in 1..Len(gs)} \cup {es[i].id : i \in 1..Len(es)} \cup {0}
    IN (CHOOSE m \in ids : \A x \in ids : x <= m) + 1

EditorsIdle ==
    /\ budgets = <<>>
    /\ formBudgetCategories = <<>>
    /\ formTotalAmount = <<>>
    /\ selectedGrantForBudget = 0
    /\ calc = [done |-> FALSE]
    /\ PagesIdle

\* initializeData: an empty document, or the document an earlier run left.
\* generateId never returns an id that a caller has named: the ids callers
\* name are those of the stored document, the generated ones lie above them.
Init ==
    /\ \/ grants = <<>> /\ expenses = <<>>
       \/ grants = StoredGrants /\ expenses = StoredExpenses
    /\ nextId = FreeId(StoredGrants, StoredExpenses)
    /\ now = 1
    /\ last = NoCall
    /\ EditorsIdle

GrantsCreate ==
    /\ \E d \in GrantDataInputs : grantsCreate(d)
    /\ UNCHANGED <<editorVars, calc, pageVars>>

GrantsCreateSecondCopy ==
    /\ \E d \in GrantDataInputs : grantsCreateSecondCopy(d)
    /\ UNCHANGED <<editorVars, calc, pageVars>>

GrantsUpdate ==
    /\ \E id \in IdArgs(grants), d \in GrantPartialInputs : grantsUpdate(id, d)
    /\ UNCHANGED <<editorVars, calc, pageVars>>

GrantsDelete ==
    /\ \E id \in IdArgs(grants) : grantsDelete(id)
    /\ UNCHANGED <<editorVars, calc, pageVars>>

ExpensesCreate ==
    /\ \E d \in ExpenseDataInputs(IdArgs(grants)) : expensesCreate(d)
    /\ UNCHANGED <<editorVars, calc, pageVars>>

ExpensesUpdate ==
    /\ \E id \in IdArgs(expenses), d \in ExpensePartialInputs({nextId}) :
          expensesUpdate(id, d)
    /\ UNCHANGED <<editorVars, calc, pageVars>>

ExpensesDelete ==
    /\ \E id \in IdArgs(expenses) : expensesDelete(id)
    /\ UNCHANGED <<editorVars, calc, pageVars>>

GrantsGetAll ==
    /\ grantsGetAll
    /\ UNCHANGED <<editorVars, calc, pageVars>>

ExpensesGetByDateRange ==
    /\ \E s \in DateArgs, e \in DateArgs, g \in GrantIdsArgs :
          expensesGetByDateRange(s, e, g)
    /\ UNCHANGED <<editorVars, calc, pageVars>>

(***************************************************************************)
(* The query layer: getByDateRange over a document that expense writes and *)
(* grant deletions change                                                  *)
(***************************************************************************)
InitQuery ==
    /\ grants = StoredGrants
    /\ expenses = StoredExpenses
    /\ nextId = FreeId(grants, expenses)
    /\ now = MaxWrites - MaxQueryWrites + 1
    /\ last = NoCall
    /\ EditorsIdle

NextQuery ==
    \/ ExpensesGetByDateRange
    \/ ExpensesCreate
    \/ ExpensesUpdate
    \/ GrantsUpdate
    \/ GrantsDelete

SpecQuery == InitQuery /\ [][NextQuery]_vars

(***************************************************************************)
(* Budget handlers (src/main/main.ts)                                      *)
(***************************************************************************)
\* budgetCategories.map(category => ({ ...category, id: generateId(), createdAt }))
RECURSIVE WithFreshIds(_, _)
WithFreshIds(categories, firstId) ==
    IF categories = <<>> THEN <<>>
    ELSE <<Merge(Head(categories), [id |-> firstId, createdAt |-> now])>>
         \o WithFreshIds(Tail(categories), firstId + 1)

\* budget:import that appends to the categories the grant has
budgetImportAppend(grantId, budgetCategories) ==
    LET grantIndex == FindIndex(grants, grantId)
    IN IF grantIndex > 0
       THEN /\ Write
            /\ LET cats == WithFreshIds(budgetCategories, nextId)
                   before == IF "budgetCategories" \in DOMAIN grants[grantIndex]
                             THEN grants[grantIndex].budgetCategories ELSE <<>>
               IN /\ grants' = SetAt(grants, grantIndex,
                                   Merge(grants[grantIndex],
                                         [budgetCategories |-> before \o cats,
                                          updatedAt |-> now]))
                  /\ last' = [op |-> "budget:import", ok |-> TRUE, id |-> grantId,
                              arg |-> budgetCategories, ret |-> before \o cats]
            /\ nextId' = nextId + Len(budgetCategories)
            /\ now' = now + 1
            /\ UNCHANGED expenses
       ELSE /\ last' = [op |-> "budget:import", ok |-> FALSE, id |-> grantId]
            /\ UNCHANGED ledgerVars

budgetImport(grantId, budgetCategories) ==
    LET grantIndex == FindIndex(grants, grantId)
    IN IF grantIndex > 0
       THEN /\ Write
            /\ LET cats == WithFreshIds(budgetCategories, nextId)
               IN /\ grants' = SetAt(grants, grantIndex,
                                   Merge(grants[grantIndex],
                                         [budgetCategories |-> cats, updatedAt |-> now]))
                  /\ last' = [op |-> "budget:import", ok |-> TRUE, id |-> grantId,
                              arg |-> budgetCategories, ret |-> cats]
            /\ nextId' = nextId + Len(budgetCategories)
            /\ now' = now + 1
            /\ UNCHANGED expenses
       ELSE /\ last' = [op |-> "budget:import", ok |-> FALSE, id |-> grantId]
            /\ UNCHANGED ledgerVars

\* budget:update that assigns ids of its own, as the import does
budgetUpdateFreshIds(grantId, budgetCategories) ==
    LET grantIndex == FindIndex(grants, grantId)
    IN IF grantIndex > 0
       THEN /\ Write
            /\ LET cats == WithFreshIds(budgetCategories, nextId)
               IN /\ grants' = SetAt(grants, grantIndex,
                                   Merge(grants[grantIndex],
                                         [budgetCategories |-> cats, updatedAt |-> now]))
                  /\ last' = [op |-> "budget:update", ok |-> TRUE, id |-> grantId,
                              arg |-> budgetCategories, ret |-> cats]
            /\ nextId' = nextId + Len(budgetCategories)
            /\ now' = now + 1
            /\ UNCHANGED expenses
       ELSE /\ last' = [op |-> "budget:update", ok |-> FALSE, id |-> grantId]
            /\ UNCHANGED ledgerVars

budgetUpdate(grantId, budgetCategories) ==
    LET grantIndex == FindIndex(grants, grantId)
    IN IF grantIndex > 0
       THEN /\ Write
            /\ grants' = SetAt(grants, grantIndex,
                             Merge(grants[grantIndex],
                                   [budgetCategories |-> budgetCategories,
                                    updatedAt |-> now]))
            /\ last' = [op |-> "budget:update", ok |-> TRUE, id |-> grantId,
                        arg |-> budgetCategories, ret |-> budgetCategories]
            /\ now' = now + 1
            /\ UNCHANGED <<expenses, nextId>>
       ELSE /\ last' = [op |-> "budget:update", ok |-> FALSE, id |-> grantId]
            /\ UNCHANGED ledgerVars

\* budget:get: grant?.budgetCategories || [] of the first grant with the id
budgetGet(grantId) ==
    /\ last' = [op |-> "budget:get", ok |-> TRUE, id |-> grantId,
                ret |-> LET i == FindIndex(grants, grantId)
                        IN IF i > 0 /\ "budgetCategories" \in DOMAIN grants[i]
                           THEN grants[i].budgetCategories ELSE <<>>]
    /\ UNCHANGED ledgerVars

(***************************************************************************)
(* BudgetForm (src/renderer/components/BudgetForm.tsx), opened from the    *)
(* Grants page                                                             *)
(***************************************************************************)
getBudgetCategoryName(type) ==
    CASE type = "pi_salary" -> "PI Summer Salary"
      [] type = "student_salary" -> "Student Summer Salary"
      [] type = "travel" -> "Travel"
      [] type = "materials" -> "Materials and Supplies"
      [] type = "publication" -> "Publication Costs"
      [] type = "tuition" -> "Tuition"
      [] type = "other" -> "Other"
      [] OTHER -> "Unknown"

\* the "Add Budget Category" buttons
BudgetFormTypes ==
    {"pi_salary", "student_salary", "travel", "materials", "publication", "tuition", "other"}

\* default values based on type
BudgetFormDefaults(type) ==
    CASE type = "pi_salary" -> [monthlyRate |-> 0, numberOfMonths |-> 1]
      [] type = "student_salary" ->
             [monthlyRate |-> 0, numberOfMonths |-> 3, numberOfStudents |-> 1]
      [] type = "tuition" -> [yearlyRate |-> 0, numberOfYears |-> 1, numberOfStudents |-> 1]
      [] type = "travel" -> [numberOfTrips |-> 1, costPerTrip |-> 0]
      [] OTHER -> [amount |-> 0]

addBudgetCategory(type) ==
    LET newBudget == Merge([id |-> nextId, category |-> getBudgetCategoryName(type),
                            type |-> type, amount |-> 0, createdAt |-> now,
                            description |-> "", notes |-> "", fiscalYear |-> now],
                           BudgetFormDefaults(type))
    IN /\ budgets' = Append(budgets, newBudget)
       /\ nextId' = nextId + 1

\* budget.id === id is false for a category that was stored without an id
updateBudget(id, updates) ==
    budgets' = [i \in 1..Len(budgets) |->
                   IF "id" \in DOMAIN budgets[i] /\ budgets[i].id = id
                   THEN LET updated == Merge(budgets[i], updates)
                        IN Merge(updated, [amount |-> calculateAmount(updated)])
                   ELSE budgets[i]]

\* what a number input yields: parseFloat(e.target.value) || 0
EditorValues == {-1, 0, 2}

\* the fields renderBudgetFields shows for a category
RenderedFields(budget) ==
    IF TypeOf(budget) \in {"pi_salary", "student_salary", "tuition", "travel",
                           "materials", "publication", "other"}
    THEN ParamFields(TypeOf(budget))
    ELSE {}

\* Grants.handleManageBudget: the form opens on the grant's stored categories
handleManageBudget(grantId) ==
    /\ selectedGrantForBudget = 0
    /\ Write
    /\ selectedGrantForBudget' = grantId
    /\ budgets' = (LET i == FindIndex(grants, grantId)
                   IN IF i > 0 /\ "budgetCategories" \in DOMAIN grants[i]
                      THEN grants[i].budgetCategories ELSE <<>>)
    /\ UNCHANGED <<ledgerVars, last, formBudgetCategories, formTotalAmount, calc,
                   pageVars>>

HandleManageBudget ==
    \E g \in {grants[i].id : i \in 1..Len(grants)} : handleManageBudget(g)

AddBudgetCategory ==
    /\ selectedGrantForBudget # 0
    /\ nextId < FreeId(grants, expenses) + MaxBudgets
    /\ \E type \in BudgetFormTypes : addBudgetCategory(type)
    /\ UNCHANGED <<grants, expenses, now, last, formBudgetCategories, formTotalAmount,
                   selectedGrantForBudget, calc, pageVars>>

UpdateBudget ==
    /\ selectedGrantForBudget # 0
    /\ \E i \in 1..Len(budgets) :
         \E field \in RenderedFields(budgets[i]), v \in EditorValues :
            updateBudget(budgets[i].id, [f \in {field} |-> v])
    /\ UNCHANGED <<ledgerVars, last, formBudgetCategories, formTotalAmount,
                   selectedGrantForBudget, calc, pageVars>>

\* BudgetForm.handleSave -> Grants.handleSaveBudget -> budget.update
HandleSaveBudget ==
    /\ selectedGrantForBudget # 0
    /\ budgetUpdate(selectedGrantForBudget, budgets)
    /\ selectedGrantForBudget' = 0
    /\ budgets' = <<>>
    /\ UNCHANGED <<formBudgetCategories, formTotalAmount, calc, pageVars>>

\* Grants.handleCancelBudget: the form unmounts, its state is dropped
HandleCancelBudget ==
    /\ selectedGrantForBudget # 0
    /\ selectedGrantForBudget' = 0
    /\ budgets' = <<>>
    /\ UNCHANGED <<ledgerVars, last, formBudgetCategories, formTotalAmount, calc,
                   pageVars>>

\* category lists a caller may pass to budget.import and budget.update
CategoryListInputs ==
    { <<>>,
      << [category |-> "Other", amount |-> 3, description |-> ""] >>,
      << [id |-> 91, category |-> "Travel", type |-> "travel", amount |-> 4,
          numberOfTrips |-> 2, costPerTrip |-> 2],
         [id |-> 92, category |-> "PI Summer Salary", type |-> "pi_salary", amount |-> 5,
          monthlyRate |-> 2, numberOfMonths |-> 1] >>,
      << [id |-> 93, category |-> "Other", type |-> "other", amount |-> -1] >> }

BudgetImport ==
    /\ selectedGrantForBudget = 0
    /\ \E id \in IdArgs(grants), c \in CategoryListInputs : budgetImport(id, c)
    /\ UNCHANGED <<editorVars, calc, pageVars>>

BudgetUpdate ==
    /\ selectedGrantForBudget = 0
    /\ \E id \in IdArgs(grants), c \in CategoryListInputs : budgetUpdate(id, c)
    /\ UNCHANGED <<editorVars, calc, pageVars>>

BudgetGet ==
    /\ \E id \in IdArgs(grants) : budgetGet(id)
    /\ UNCHANGED <<editorVars, calc, pageVars>>

\* the ledger store: the handlers of the document, in any order
Next ==
    \/ GrantsGetAll
    \/ GrantsCreate
    \/ GrantsCreateSecondCopy
    \/ GrantsUpdate
    \/ GrantsDelete
    \/ ExpensesCreate
    \/ ExpensesUpdate
    \/ ExpensesDelete
    \/ BudgetImport
    \/ BudgetGet
    \/ BudgetUpdate

Spec == Init /\ [][Next]_vars

(***************************************************************************)
(* The budget editor session over the stored document                      *)
(***************************************************************************)
InitBudget ==
    /\ grants = StoredGrants
    /\ expenses = StoredExpenses
    /\ nextId = FreeId(grants, expenses)
    /\ now = MaxWrites - MaxBudgetWrites + 1
    /\ last = NoCall
    /\ EditorsIdle

NextBudget ==
    \/ BudgetImport
    \/ BudgetUpdate
    \/ HandleManageBudget
    \/ AddBudgetCategory
    \/ UpdateBudget
    \/ HandleSaveBudget
    \/ HandleCancelBudget

SpecBudget == InitBudget /\ [][NextBudget]_vars

(***************************************************************************)
(* The new-grant form of the Grants page (src/renderer/pages/Grants.tsx)   *)
(***************************************************************************)
getFormBudgetCategoryName(type) ==
    CASE type = "pi_salary" -> "PI Summer Salary"
      [] type = "student_salary" -> "Student Summer Salary"
      [] type = "travel" -> "Travel"
      [] type = "materials" -> "Materials and Supplies"
      [] type = "publication" -> "Publication Costs"
      [] type = "tuition" -> "Tuition"
      [] type = "indirect" -> "Indirect Costs"
      [] type = "other" -> "Other"
      [] OTHER -> "Unknown"

\* default values based on type
FormDefaults(type) ==
    CASE type = "pi_salary" -> [monthlyRate |-> 0, numberOfMonths |-> 3]
      [] type = "student_salary" ->
             [monthlyRate |-> 0, numberOfMonths |-> 3, numberOfStudents |-> 1]
      [] type = "tuition" -> [yearlyRate |-> 0, numberOfYears |-> 1, numberOfStudents |-> 1]
      [] type = "travel" -> [numberOfTrips |-> 1, costPerTrip |-> 0]
      [] OTHER -> [amount |-> 0]

addFormBudgetCategory(type) ==
    LET newBudget == Merge([id |-> nextId, category |-> getFormBudgetCategoryName(type),
                            type |-> type, amount |-> 0, createdAt |-> now,
                            description |-> "", notes |-> ""],
                           FormDefaults(type))
    IN /\ formBudgetCategories' = Append(formBudgetCategories, newBudget)
       /\ nextId' = nextId + 1

updateFormBudgetCategory(id, updates) ==
    formBudgetCategories' =
        [i \in 1..Len(formBudgetCategories) |->
            IF formBudgetCategories[i].id = id
            THEN LET updated == Merge(formBudgetCategories[i], updates)
                 IN Merge(updated, [amount |-> calculateBudgetAmount(updated)])
            ELSE formBudgetCategories[i]]

RECURSIVE SumAmounts(_)
SumAmounts(cats) ==
    IF cats = <<>> THEN 0 ELSE Head(cats).amount + SumAmounts(Tail(cats))

\* formBudgetCategories.reduce((total, budget) => total + budget.amount, 0)
getTotalBudget == SumAmounts(formBudgetCategories)

\* parseFloat(formData.totalAmount) || 0
ParsedTotalAmount == IF formTotalAmount = <<>> THEN 0 ELSE formTotalAmount[1]

getBudgetDifference == ParsedTotalAmount - getTotalBudget

\* Math.abs(totalAmount - budgetTotal) < 0.01, on whole amounts
isBudgetBalanced == getBudgetDifference = 0

autoBalanceWithIndirect ==
    LET difference == ParsedTotalAmount - getTotalBudget
        found == {i \in 1..Len(formBudgetCategories) :
                     formBudgetCategories[i].type = "indirect"}
    IN IF found # {}
       THEN LET indirectCategory ==
                    formBudgetCategories[CHOOSE i \in found : \A j \in found : i <= j]
            IN /\ updateFormBudgetCategory(indirectCategory.id,
                       [amount |-> indirectCategory.amount + difference])
               /\ UNCHANGED nextId
       ELSE /\ formBudgetCategories' =
                   Append(formBudgetCategories,
                          [id |-> nextId, category |-> getFormBudgetCategoryName("indirect"),
                           type |-> "indirect", amount |-> difference, createdAt |-> now,
                           description |-> "Auto-balanced indirect costs", notes |-> ""])
            /\ nextId' = nextId + 1

\* what the Total Amount input may hold: empty or a number
TotalAmountInputs == {<<>>, <<0>>, <<2>>}

FormTypes == DerivableTypes \cup FlatTypes

SetTotalAmount ==
    /\ \E t \in TotalAmountInputs : formTotalAmount' = t
    /\ UNCHANGED <<ledgerVars, last, budgets, formBudgetCategories, selectedGrantForBudget,
                   calc, pageVars>>

AddFormBudgetCategory ==
    /\ Len(formBudgetCategories) < MaxFormBudgets
    /\ Write
    /\ \E type \in FormTypes : addFormBudgetCategory(type)
    /\ UNCHANGED <<grants, expenses, now, last, budgets, formTotalAmount,
                   selectedGrantForBudget, calc, pageVars>>

UpdateFormBudgetCategory ==
    /\ \E i \in 1..Len(formBudgetCategories) :
         \E field \in ParamFields(formBudgetCategories[i].type), v \in EditorValues :
            updateFormBudgetCategory(formBudgetCategories[i].id, [f \in {field} |-> v])
    /\ UNCHANGED <<ledgerVars, last, budgets, formTotalAmount, selectedGrantForBudget,
                   calc, pageVars>>

\* the Auto-Balance button is rendered only for an unbalanced, non-empty budget
\* with a total amount entered
AutoBalanceWithIndirect ==
    /\ ~isBudgetBalanced
    /\ Len(formBudgetCategories) > 0
    /\ formTotalAmount # <<>>
    /\ autoBalanceWithIndirect
    /\ UNCHANGED <<grants, expenses, now, last, budgets, formTotalAmount,
                   selectedGrantForBudget, calc, pageVars>>

\* Grants.handleSubmit: a mismatch alerts and returns, otherwise grants.create
\* and the form is reset; the Total Amount input is required
HandleSubmit ==
    /\ formTotalAmount # <<>>
    /\ ~(~isBudgetBalanced /\ Len(formBudgetCategories) > 0)
    /\ grantsCreate([title |-> "G5", totalAmount |-> formTotalAmount[1],
                     budgetCategories |-> formBudgetCategories])
    /\ formTotalAmount' = <<>>
    /\ formBudgetCategories' = <<>>
    /\ UNCHANGED <<budgets, selectedGrantForBudget, calc, pageVars>>

InitForm ==
    /\ grants = StoredGrants
    /\ expenses = StoredExpenses
    /\ nextId = FreeId(grants, expenses)
    /\ now = MaxWrites - MaxBudgetWrites + 1
    /\ last = NoCall
    /\ EditorsIdle

NextForm ==
    \/ SetTotalAmount
    \/ AddFormBudgetCategory
    \/ UpdateFormBudgetCategory
    \/ AutoBalanceWithIndirect
    \/ HandleSubmit

SpecForm == InitForm /\ [][NextForm]_vars

(***************************************************************************)
(* Structured grant import (src/main/main.ts, files:importGrantsFromExcel) *)
(*                                                                         *)
(* A row of XLSX.utils.sheet_to_json is a function from column headers to  *)
(* cell values: text cells are strings, numeric cells are integers, a date *)
(* cell is [num |-> n] for a spreadsheet serial number and [str |-> s] for *)
(* a text, s a date as in the ledger.  A cell left empty has no key.       *)
(***************************************************************************)
\* row[k1] || row[k2] || ... || dflt over text cells: "" is falsy
RECURSIVE TextCell(_, _, _)
TextCell(row, keys, dflt) ==
    IF keys = <<>> THEN dflt
    ELSE IF Head(keys) \in DOMAIN row /\ row[Head(keys)] # ""
         THEN row[Head(keys)]
         ELSE TextCell(row, Tail(keys), dflt)

\* parseFloat / parseInt of row[k1] || row[k2] || ... || dflt over numeric
\* cells: 0 is falsy
RECURSIVE NumCell(_, _, _)
NumCell(row, keys, dflt) ==
    IF keys = <<>> THEN dflt
    ELSE IF Head(keys) \in DOMAIN row /\ row[Head(keys)] # 0
         THEN row[Head(keys)]
         ELSE NumCell(row, Tail(keys), dflt)

\* row[k1] || row[k2] || '' over date cells: serial 0 and "" are falsy
RECURSIVE DateCell(_, _)
DateCell(row, keys) ==
    IF keys = <<>> THEN [str |-> <<>>]
    ELSE LET c == IF Head(keys) \in DOMAIN row THEN row[Head(keys)] ELSE [str |-> <<>>]
         IN IF ("num" \in DOMAIN c /\ c.num # 0) \/ ("str" \in DOMAIN c /\ c.str # <<>>)
            THEN c
            ELSE DateCell(row, Tail(keys))

\* the calendar years in which imported dates fall
ImportYears == 2024..2025

\* XLSX.SSF.parse_date_code: serial 25569 is 1970-01-01; the year, then the
\* month, then the day of the date that many days later
parse_date_code(serial) ==
    LET days == serial - 25569
        y == CHOOSE yy \in ImportYears :
                 GetTime(<<yy, 1, 1>>) <= days /\ days < GetTime(<<yy + 1, 1, 1>>)
        m == CHOOSE mm \in 1..12 :
                 /\ GetTime(<<y, mm, 1>>) <= days
                 /\ days < (IF mm = 12 THEN GetTime(<<y + 1, 1, 1>>)
                            ELSE GetTime(<<y, mm + 1, 1>>))
    IN <<y, m, days - GetTime(<<y, m, 1>>) + 1>>

\* formatDate: '' for an empty value, y-m-d of a serial number, the ISO date
\* of a parseable text, else the text as it is
formatDate(dateValue) ==
    IF "num" \in DOMAIN dateValue
    THEN IF dateValue.num = 0 THEN <<>> ELSE parse_date_code(dateValue.num)
    ELSE dateValue.str

budgetTypes ==
    << [key |-> "PI Summer Salary", lower |-> "pi summer salary", type |-> "pi_salary"],
       [key |-> "Student Summer Salary", lower |-> "student summer salary",
        type |-> "student_salary"],
       [key |-> "Travel", lower |-> "travel", type |-> "travel"],
       [key |-> "Materials", lower |-> "materials", type |-> "materials"],
       [key |-> "Publication", lower |-> "publication", type |-> "publication"],
       [key |-> "Tuition", lower |-> "tuition", type |-> "tuition"] >>

\* the switch on budgetType.type: the type-specific columns and their defaults
typeSpecificFields(row, type, amount) ==
    CASE type = "pi_salary" ->
             [monthlyRate |-> NumCell(row, <<"PI Monthly Rate">>, 0),
              numberOfMonths |-> NumCell(row, <<"PI Months">>, 3)]
      [] type = "student_salary" ->
             [monthlyRate |-> NumCell(row, <<"Student Monthly Rate">>, 0),
              numberOfMonths |-> NumCell(row, <<"Student Months">>, 3),
              numberOfStudents |-> NumCell(row, <<"Number of Students">>, 1)]
      [] type = "tuition" ->
             [yearlyRate |-> NumCell(row, <<"Tuition Per Year">>, 0),
              numberOfYears |-> NumCell(row, <<"Tuition Years">>, 1),
              numberOfStudents |-> NumCell(row, <<"Tuition Students">>, 1)]
      [] type = "travel" ->
             [numberOfTrips |-> NumCell(row, <<"Number of Trips">>, 1),
              costPerTrip |-> NumCell(row, <<"Cost Per Trip">>, amount)]
      [] OTHER -> [amount |-> amount]

\* the loop over budgetTypes: a category for every amount column > 0
RECURSIVE typedCategories(_, _, _, _)
typedCategories(row, k, cats, firstId) ==
    IF k > Len(budgetTypes) THEN cats
    ELSE LET budgetType == budgetTypes[k]
             amount == NumCell(row, <<budgetType.key, budgetType.lower>>, 0)
             budget == Merge([id |-> firstId + Len(cats),
                              category |-> budgetType.key,
                              type |-> budgetType.type,
                              amount |-> amount,
                              description |->
                                  TextCell(row, <<budgetType.key \o " Description">>, ""),
                              createdAt |-> now,
                              notes |-> TextCell(row, <<budgetType.key \o " Notes">>, "")],
                             typeSpecificFields(row, budgetType.type, amount))
         IN typedCategories(row, k + 1,
                            IF amount > 0 THEN Append(cats, budget) ELSE cats, firstId)

\* the loop over Category 1..10 / Amount 1..10: flat categories of type other
RECURSIVE genericCategories(_, _, _, _)
genericCategories(row, i, cats, firstId) ==
    IF i > 10 THEN cats
    ELSE LET n == ToString(i)
             categoryName == TextCell(row, <<"Category " \o n, "category" \o n>>, "")
             categoryAmount == NumCell(row, <<"Amount " \o n, "amount" \o n>>, 0)
             budget == [id |-> firstId + Len(cats),
                        category |-> categoryName,
                        type |-> "other",
                        amount |-> categoryAmount,
                        description |->
                            TextCell(row, <<"Description " \o n, "description" \o n>>, ""),
                        createdAt |-> now]
         IN genericCategories(row, i + 1,
                              IF categoryName # "" /\ categoryAmount # 0
                              THEN Append(cats, budget) ELSE cats, firstId)

\* the grant fields read from the row's columns and their aliases
rowGrantData(row) ==
    [title |-> TextCell(row, <<"Grant Title", "Title", "title">>, ""),
     agency |-> TextCell(row, <<"Agency", "agency">>, ""),
     number |-> TextCell(row, <<"Grant Number", "Number", "number">>, ""),
     totalAmount |-> NumCell(row, <<"Total Amount", "Amount", "totalAmount">>, 0),
     startDate |-> formatDate(DateCell(row, <<"Start Date", "startDate">>)),
     endDate |-> formatDate(DateCell(row, <<"End Date", "endDate">>)),
     description |-> TextCell(row, <<"Description", "description">>, ""),
     status |-> TextCell(row, <<"Status", "status">>, "Active")]

\* the required-field check with the title as the only required field
requiredFieldMissingTitleOnly(grantData) == grantData.title = ""

\* !grantData.title || !grantData.agency || !grantData.number
requiredFieldMissing(grantData) ==
    grantData.title = "" \/ grantData.agency = "" \/ grantData.number = ""

\* one iteration of the row loop that counts the categories of a skipped row
processRowCountSkipped(row, acc) ==
    LET grantData == rowGrantData(row)
        budgetCategories ==
            genericCategories(row, 1,
                typedCategories(row, 1, <<>>, acc.nextId + 1), acc.nextId + 1)
    IN IF requiredFieldMissing(grantData)
       THEN [acc EXCEPT !.categoriesCreated = @ + Len(budgetCategories)]
       ELSE [grants |-> Append(acc.grants,
                           Merge(grantData,
                                 [id |-> acc.nextId, createdAt |-> now, updatedAt |-> now,
                                  budgetCategories |-> budgetCategories])),
             nextId |-> acc.nextId + 1 + Len(budgetCategories),
             grantsCreated |-> acc.grantsCreated + 1,
             categoriesCreated |-> acc.categoriesCreated + Len(budgetCategories)]

\* one iteration of the row loop that numbers the new grant by its place in
\* the list
processRowPositionalId(row, acc) ==
    LET grantData == rowGrantData(row)
        budgetCategories ==
            genericCategories(row, 1,
                typedCategories(row, 1, <<>>, acc.nextId + 1), acc.nextId + 1)
    IN IF requiredFieldMissing(grantData)
       THEN acc
       ELSE [grants |-> Append(acc.grants,
                           Merge(grantData,
                                 [id |-> Len(acc.grants), createdAt |-> now,
                                  updatedAt |-> now,
                                  budgetCategories |-> budgetCategories])),
             nextId |-> acc.nextId + 1 + Len(budgetCategories),
             grantsCreated |-> acc.grantsCreated + 1,
             categoriesCreated |-> acc.categoriesCreated + Len(budgetCategories)]

\* one iteration of the row loop over currentData and the two counters
processRow(row, acc) ==
    LET grantData == rowGrantData(row)
        budgetCategories ==
            genericCategories(row, 1,
                typedCategories(row, 1, <<>>, acc.nextId + 1), acc.nextId + 1)
    IN IF requiredFieldMissing(grantData)
       THEN acc
       ELSE [grants |-> Append(acc.grants,
                           Merge(grantData,
                                 [id |-> acc.nextId, createdAt |-> now, updatedAt |-> now,
                                  budgetCategories |-> budgetCategories])),
             nextId |-> acc.nextId + 1 + Len(budgetCategories),
             grantsCreated |-> acc.grantsCreated + 1,
             categoriesCreated |-> acc.categoriesCreated + Len(budgetCategories)]

RECURSIVE processRows(_, _)
processRows(data, acc) ==
    IF data = <<>> THEN acc
    ELSE processRows(Tail(data), processRow(Head(data), acc))

ImportOp == "files:importGrantsFromExcel"

\* the import that commits the rows it could use and reports a failure when
\* it had to skip one
importGrantsFromExcelPartialCommit(result, file) ==
    IF result.canceled \/ result.filePaths = <<>>
    THEN /\ last' = [op |-> ImportOp, ok |-> TRUE,
                     ret |-> [success |-> FALSE, error |-> "File selection canceled"]]
         /\ UNCHANGED ledgerVars
    ELSE IF ~file.readable
    THEN /\ last' = [op |-> ImportOp, ok |-> TRUE,
                     ret |-> [success |-> FALSE, error |-> "readFile failed"]]
         /\ UNCHANGED ledgerVars
    ELSE IF file.data = <<>>
    THEN /\ last' = [op |-> ImportOp, ok |-> TRUE,
                     ret |-> [success |-> FALSE, error |-> "No data found in Excel file"]]
         /\ UNCHANGED ledgerVars
    ELSE /\ Write
         /\ LET done == processRows(file.data,
                            [grants |-> grants, nextId |-> nextId,
                             grantsCreated |-> 0, categoriesCreated |-> 0])
            IN /\ grants' = done.grants
               /\ nextId' = done.nextId
               /\ last' = IF done.grantsCreated = Len(file.data)
                          THEN [op |-> ImportOp, ok |-> TRUE, data |-> file.data,
                                ret |-> [success |-> TRUE,
                                         grantsCount |-> done.grantsCreated,
                                         categoriesCount |-> done.categoriesCreated]]
                          ELSE [op |-> ImportOp, ok |-> TRUE,
                                ret |-> [success |-> FALSE, error |-> "row skipped"]]
         /\ now' = now + 1
         /\ UNCHANGED expenses

\* the import that builds on the document as it was when the program started
importGrantsFromExcelStaleRead(result, file) ==
    IF result.canceled \/ result.filePaths = <<>>
    THEN /\ last' = [op |-> ImportOp, ok |-> TRUE,
                     ret |-> [success |-> FALSE, error |-> "File selection canceled"]]
         /\ UNCHANGED ledgerVars
    ELSE IF ~file.readable
    THEN /\ last' = [op |-> ImportOp, ok |-> TRUE,
                     ret |-> [success |-> FALSE, error |-> "readFile failed"]]
         /\ UNCHANGED ledgerVars
    ELSE IF file.data = <<>>
    THEN /\ last' = [op |-> ImportOp, ok |-> TRUE,
                     ret |-> [success |-> FALSE, error |-> "No data found in Excel file"]]
         /\ UNCHANGED ledgerVars
    ELSE /\ Write
         /\ LET done == processRows(file.data,
                            [grants |-> StoredGrants, nextId |-> nextId,
                             grantsCreated |-> 0, categoriesCreated |-> 0])
            IN /\ grants' = done.grants
               /\ nextId' = done.nextId
               /\ last' = [op |-> ImportOp, ok |-> TRUE, data |-> file.data,
                           ret |-> [success |-> TRUE,
                                    grantsCount |-> done.grantsCreated,
                                    categoriesCount |-> done.categoriesCreated]]
         /\ now' = now + 1
         /\ UNCHANGED expenses

\* files:importGrantsFromExcel from the point where the file dialog has
\* returned: result is the dialog's result, file what XLSX.readFile and
\* sheet_to_json make of the chosen file (readFile throws when it cannot read
\* or parse it)
importGrantsFromExcel(result, file) ==
    IF result.canceled \/ result.filePaths = <<>>
    THEN /\ last' = [op |-> ImportOp, ok |-> TRUE,
                     ret |-> [success |-> FALSE, error |-> "File selection canceled"]]
         /\ UNCHANGED ledgerVars
    ELSE IF ~file.readable
    THEN /\ last' = [op |-> ImportOp, ok |-> TRUE,
                     ret |-> [success |-> FALSE, error |-> "readFile failed"]]
         /\ UNCHANGED ledgerVars
    ELSE IF file.data = <<>>
    THEN /\ last' = [op |-> ImportOp, ok |-> TRUE,
                     ret |-> [success |-> FALSE, error |-> "No data found in Excel file"]]
         /\ UNCHANGED ledgerVars
    ELSE /\ Write
         /\ LET done == processRows(file.data,
                            [grants |-> grants, nextId |-> nextId,
                             grantsCreated |-> 0, categoriesCreated |-> 0])
            IN /\ grants' = done.grants
               /\ nextId' = done.nextId
               /\ last' = [op |-> ImportOp, ok |-> TRUE, data |-> file.data,
                           ret |-> [success |-> TRUE,
                                    grantsCount |-> done.grantsCreated,
                                    categoriesCount |-> done.categoriesCreated]]
         /\ now' = now + 1
         /\ UNCHANGED expenses

\* rows of a spreadsheet: a complete one with a travel budget and a generic
\* category, three that lack a required field (two of them with budget
\* columns), a complete one under the lower-case column aliases
RowFull ==
    ("Grant Title" :> "T1") @@ ("Agency" :> "NSF") @@ ("Grant Number" :> "N1")
    @@ ("Total Amount" :> 7) @@ ("Start Date" :> [num |-> 45672])
    @@ ("End Date" :> [str |-> D3])
    @@ ("Travel" :> 4) @@ ("Number of Trips" :> 2) @@ ("Cost Per Trip" :> 2)
    @@ ("Category 1" :> "Misc") @@ ("Amount 1" :> 3)

RowNoTitle ==
    ("Agency" :> "NSF") @@ ("Grant Number" :> "N2")
    @@ ("Materials" :> 5) @@ ("Category 1" :> "Misc") @@ ("Amount 1" :> 1)

RowEmptyAgency ==
    ("Title" :> "T3") @@ ("Agency" :> "") @@ ("Number" :> "N3")

RowNoNumber ==
    ("title" :> "T4") @@ ("agency" :> "DOE")
    @@ ("PI Summer Salary" :> 6) @@ ("PI Monthly Rate" :> 2)

RowAliases ==
    ("title" :> "T5") @@ ("agency" :> "DOE") @@ ("number" :> "N5")
    @@ ("startDate" :> [str |-> D2]) @@ ("status" :> "Completed")
    @@ ("pi summer salary" :> 6) @@ ("PI Monthly Rate" :> 2)
    @@ ("Student Summer Salary" :> 0) @@ ("Student Monthly Rate" :> 2)

\* a complete row whose budget is given by amount columns: a PI salary with no
\* rate column, a tuition whose amount is not rate x years x students, and a
\* negative materials amount
RowAmountsOnly ==
    ("Grant Title" :> "T6") @@ ("Agency" :> "NIH") @@ ("Grant Number" :> "N6")
    @@ ("PI Summer Salary" :> 6)
    @@ ("Tuition" :> 5) @@ ("Tuition Per Year" :> 2)
    @@ ("Materials" :> (-1))

RowInputs ==
    {RowFull, RowNoTitle, RowEmptyAgency, RowNoNumber, RowAliases}

\* the sheets of at most MaxRows rows
SheetInputs == UNION { [1..n -> RowInputs] : n \in 0..MaxRows }

\* what dialog.showOpenDialog resolves to
DialogResults ==
    { [canceled |-> TRUE, filePaths |-> <<>>],
      [canceled |-> FALSE, filePaths |-> <<>>],
      [canceled |-> FALSE, filePaths |-> <<"grants.xlsx">>] }

\* what reading the chosen file gives: an exception, or the rows of its first
\* sheet
FileInputs ==
    { [readable |-> FALSE, data |-> <<>>] }
    \cup { [readable |-> TRUE, data |-> s] : s \in SheetInputs }

\* a file is read only when the dialog returned its path
FilesImportGrantsFromExcel ==
    /\ \E result \in DialogResults :
          \E file \in (IF result.canceled \/ result.filePaths = <<>>
                       THEN {[readable |-> FALSE, data |-> <<>>]}
                       ELSE FileInputs) :
              importGrantsFromExcel(result, file)
    /\ UNCHANGED <<editorVars, calc, pageVars>>

\* imports into an empty document or into the document of an earlier run
InitImport ==
    /\ \/ grants = <<>> /\ expenses = <<>>
       \/ grants = StoredGrants /\ expenses = StoredExpenses
    /\ nextId = FreeId(StoredGrants, StoredExpenses)
    /\ now = MaxWrites - MaxImports + 1
    /\ last = NoCall
    /\ EditorsIdle

NextImport ==
    \/ FilesImportGrantsFromExcel
    \/ GrantsGetAll
    \/ BudgetGet

SpecImport == InitImport /\ [][NextImport]_vars

\* sheets whose rows give budgets by amount columns, with and without the
\* columns of the parameters
AmountRowInputs == {RowAmountsOnly, RowFull, RowNoNumber, RowAliases}

AmountFileInputs ==
    { [readable |-> TRUE, data |-> s] :
          s \in UNION { [1..n -> AmountRowInputs] : n \in 0..MaxRows } }

\* the import of a sheet of such rows, chosen in the dialog
FilesImportAmountSheet ==
    /\ \E file \in AmountFileInputs :
          importGrantsFromExcel([canceled |-> FALSE, filePaths |-> <<"grants.xlsx">>],
                                file)
    /\ UNCHANGED <<editorVars, calc, pageVars>>

NextImportAmounts ==
    \/ FilesImportAmountSheet
    \/ GrantsGetAll
    \/ BudgetGet

SpecImportAmounts == InitImport /\ [][NextImportAmounts]_vars

(***************************************************************************)
(* The structured import among other requests.  The handler is async: it   *)
(* runs up to await dialog.showOpenDialog, and the rest of it runs when    *)
(* the dialog has returned; every other handler runs to completion.        *)
(* dialogs is the list of the import calls made: when each was suspended   *)
(* and, once it has resumed and run to its end, when it resumed.           *)
(***************************************************************************)
\* ipcMain.handle('files:importGrantsFromExcel') up to the await
FilesImportBegin ==
    /\ Write
    /\ Len(dialogs) < MaxDialogs
    /\ dialogs' = Append(dialogs, [began |-> now, done |-> FALSE])
    /\ UNCHANGED <<ledgerVars, last, editorVars, calc, detailVars, uploadVars,
                   expenseFormVars>>

\* files and dialog results of the imports that run among other requests
AsyncFileInputs ==
    { [readable |-> FALSE, data |-> <<>>],
      [readable |-> TRUE, data |-> <<>>],
      [readable |-> TRUE, data |-> <<RowFull>>],
      [readable |-> TRUE, data |-> <<RowNoTitle, RowAliases>>] }

\* the dialog of a suspended call returns and the handler runs to its end
FilesImportResume ==
    /\ \E k \in 1..Len(dialogs) :
          /\ ~dialogs[k].done
          /\ dialogs' = [dialogs EXCEPT ![k] =
                            [began |-> dialogs[k].began, done |-> TRUE, resumed |-> now]]
    /\ \E result \in DialogResults :
          \E file \in (IF result.canceled \/ result.filePaths = <<>>
                       THEN {[readable |-> FALSE, data |-> <<>>]}
                       ELSE AsyncFileInputs) :
              importGrantsFromExcel(result, file)
    /\ UNCHANGED <<editorVars, calc, detailVars, uploadVars, expenseFormVars>>

InitAsync ==
    /\ grants = StoredGrants
    /\ expenses = StoredExpenses
    /\ nextId = FreeId(grants, expenses)
    /\ now = 1
    /\ last = NoCall
    /\ EditorsIdle

NextAsync ==
    \/ FilesImportBegin
    \/ FilesImportResume
    \/ GrantsCreate
    \/ GrantsDelete
    \/ ExpensesCreate
    \/ GrantsGetAll

SpecAsync == InitAsync /\ [][NextAsync]_vars

(***************************************************************************)
(* GrantDetail page (src/renderer/pages/GrantDetail.tsx): the grant shown   *)
(***************************************************************************)
\* grants.find(g => g.id === id) || null over what grants:getAll returned
FindGrant(all, id) ==
    IF \E i \in 1..Len(all) : all[i].id = id
    THEN all[CHOOSE i \in 1..Len(all) :
                 all[i].id = id /\ \A j \in 1..(i - 1) : all[j].id # id]
    ELSE Null

\* what grants:getAll returns for a document
getAllOf(gs, es) ==
    [i \in 1..Len(gs) |->
        Merge(gs[i], [expenses |-> SelectSeq(es, LAMBDA exp : exp.grantId = gs[i].id)])]

\* getAvailableCategories: the six default names for a grant without
\* budgetCategories, else the grant's category names without Indirect Costs
getAvailableCategories(g) ==
    IF g = Null \/ "budgetCategories" \notin DOMAIN g
    THEN <<"PI Summer Salary", "Student Summer Salary", "Travel",
           "Materials and Supplies", "Publication Costs", "Tuition">>
    ELSE LET kept == SelectSeq(g.budgetCategories,
                               LAMBDA cat : cat.category # "Indirect Costs")
         IN [i \in 1..Len(kept) |-> kept[i].category]

\* categories[0] || ''
FirstCategory(g) ==
    IF getAvailableCategories(g) = <<>> THEN "" ELSE getAvailableCategories(g)[1]

\* the empty expense form; the amount is the text of the number input
EmptyExpenseForm(category) ==
    [description |-> "", amount |-> <<>>, category |-> category,
     date |-> Today, notes |-> ""]

\* loadGrant for the route's id
loadGrant(id) == grant' = FindGrant(getAll, id)

\* loadGrant after the handler's write
reloadGrant(id) == grant' = FindGrant(getAllOf(grants', expenses'), id)

\* the page is opened on a route /grants/:id: its effects run loadGrant and,
\* once the grant is there, set the form's category to the first available
OpenGrantDetail ==
    /\ Write
    /\ \E id \in IdArgs(grants) : loadGrant(id)
    /\ expenseForm' =
           EmptyExpenseForm(IF grant' = Null THEN "" ELSE FirstCategory(grant'))
    /\ UNCHANGED <<ledgerVars, last, editorVars, calc, uploadVars, expenseFormVars,
                   dialogs>>

\* the page renders a grant that has an expenses list (totalSpent reads it);
\* for null it shows Loading
DetailRendered == grant # Null /\ "expenses" \in DOMAIN grant

\* what the user types into the expense form
ExpenseFormInputs(field) ==
    CASE field = "description" -> {"", "E"}
      [] field = "amount" -> {<<>>, <<"3">>, <<"0">>, <<"-", "1">>}

SetExpenseForm ==
    /\ Write
    /\ DetailRendered
    /\ \E field \in {"description", "amount"} :
          \E value \in ExpenseFormInputs(field) :
              expenseForm' = [expenseForm EXCEPT ![field] = value]
    /\ UNCHANGED <<ledgerVars, last, editorVars, calc, grant, uploadVars,
                   expenseFormVars, dialogs>>

\* the browser's validation of the form: the required inputs have a value
ExpenseFormValid ==
    /\ expenseForm.description # ""
    /\ expenseForm.amount # <<>>
    /\ expenseForm.category # ""
    /\ expenseForm.date # <<>>

\* handleExpenseSubmit: expenses.create of the form with the parsed amount and
\* the grant's id, then the form is reset and the grant loaded again
handleExpenseSubmit ==
    /\ expensesCreate(Merge(expenseForm,
                            [amount |-> parseFloat(expenseForm.amount).val,
                             grantId |-> grant.id]))
    /\ expenseForm' = EmptyExpenseForm(FirstCategory(grant))
    /\ reloadGrant(grant.id)

HandleExpenseSubmit ==
    /\ DetailRendered
    /\ ExpenseFormValid
    /\ handleExpenseSubmit
    /\ UNCHANGED <<editorVars, calc, uploadVars, expenseFormVars, dialogs>>

\* handleDeleteExpense, confirmed: expenses.delete, then loadGrant
HandleDeleteExpense ==
    /\ DetailRendered
    /\ \E i \in 1..Len(grant.expenses) : expensesDelete(grant.expenses[i].id)
    /\ reloadGrant(grant.id)
    /\ UNCHANGED <<editorVars, calc, expenseForm, uploadVars, expenseFormVars,
                   dialogs>>

\* handleSaveBudget, the onSave of the page's BudgetForm: grants.update of the
\* budgetCategories, and the page shows what the call returned
detailHandleSaveBudget(budgetCategories) ==
    /\ grantsUpdate(grant.id, [budgetCategories |-> budgetCategories])
    /\ grant' = IF last'.ok THEN last'.ret ELSE grant

DetailHandleSaveBudget ==
    /\ DetailRendered
    /\ \E c \in CategoryListInputs : detailHandleSaveBudget(c)
    /\ UNCHANGED <<editorVars, calc, expenseForm, uploadVars, expenseFormVars,
                   dialogs>>

InitDetail ==
    /\ grants = StoredGrants
    /\ expenses = StoredExpenses
    /\ nextId = FreeId(grants, expenses)
    /\ now = 1
    /\ last = NoCall
    /\ EditorsIdle

NextDetail ==
    \/ OpenGrantDetail
    \/ SetExpenseForm
    \/ HandleExpenseSubmit
    \/ HandleDeleteExpense
    \/ DetailHandleSaveBudget

SpecDetail == InitDetail /\ [][NextDetail]_vars

(***************************************************************************)
(* Flat category import (src/renderer/components/BudgetUpload.tsx)         *)
(*                                                                         *)
(* A text is the sequence of its characters.  A cell is [num |-> n] for a  *)
(* numeric cell and [str |-> text] for a text cell; a row is a function    *)
(* from the sheet's headers to cells, an empty cell has no key.  Amounts   *)
(* are whole numbers: the texts drawn have no decimal point.               *)
(***************************************************************************)
EXPENSE_CATEGORIES == {"Personnel", "Equipment", "Travel", "Supplies", "Other"}

\* value.toString() of a cell
CellToString(cell) ==
    IF "num" \in DOMAIN cell THEN NumberToString(cell.num) ELSE cell.str

\* a cell value in a condition: undefined, 0 and '' are falsy
Truthy(row, column) ==
    /\ column \in DOMAIN row
    /\ IF "num" \in DOMAIN row[column] THEN row[column].num # 0
       ELSE row[column].str # <<>>

\* parseFloat(row[col]?.toString().replace(/[^0-9.-]/g, '') || '0')
parseAmount(row, column) ==
    LET text == IF column \in DOMAIN row
                THEN StripNonNumeric(CellToString(row[column])) ELSE <<>>
    IN parseFloat(IF text = <<>> THEN <<"0">> ELSE text)

\* category = categoryMapping[originalCategory] || 'Other' when the category
\* column is mapped and the row has a value there, else 'Other'
mapCategory(row) ==
    IF columnMapping.category # "" /\ Truthy(row, columnMapping.category)
    THEN LET originalCategory == CellToString(row[columnMapping.category])
         IN IF originalCategory \in DOMAIN categoryMapping
            THEN categoryMapping[originalCategory] ELSE "Other"
    ELSE "Other"

\* columnMapping.description ? row[columnMapping.description]?.toString() : ''
\* as a record: the property is undefined for an empty cell
mapDescription(row) ==
    IF columnMapping.description = "" THEN [description |-> <<>>]
    ELSE IF columnMapping.description \in DOMAIN row
         THEN [description |-> CellToString(row[columnMapping.description])]
         ELSE <<>>

\* the items with amount >= 0 kept
uploadedCategoriesKeepZero ==
    LET items == [i \in 1..Len(parsedData) |->
                     Merge([category |-> mapCategory(parsedData[i]),
                            parsed |-> parseAmount(parsedData[i], columnMapping.amount)],
                           mapDescription(parsedData[i]))]
        kept == SelectSeq(items, LAMBDA item : ~item.parsed.nan /\ item.parsed.val >= 0)
    IN [i \in 1..Len(kept) |->
           Merge([f \in (DOMAIN kept[i]) \ {"parsed"} |-> kept[i][f]],
                 [amount |-> kept[i].parsed.val])]

\* parsedData.map(row => ({category, amount, description}))
\*           .filter(item => item.amount > 0)
uploadedCategories ==
    LET items == [i \in 1..Len(parsedData) |->
                     Merge([category |-> mapCategory(parsedData[i]),
                            parsed |-> parseAmount(parsedData[i], columnMapping.amount)],
                           mapDescription(parsedData[i]))]
        kept == SelectSeq(items, LAMBDA item : GreaterThanZero(item.parsed))
    IN [i \in 1..Len(kept) |->
           Merge([f \in (DOMAIN kept[i]) \ {"parsed"} |-> kept[i][f]],
                 [amount |-> kept[i].parsed.val])]

\* handleImport: nothing without an amount column or without rows; else
\* budget.import for the page's grant, and the dialog closes
handleImport ==
    IF columnMapping.amount = "" \/ parsedData = <<>>
    THEN UNCHANGED <<ledgerVars, last, grant, uploadVars>>
    ELSE /\ budgetImport(grant.id, uploadedCategories)
         /\ IF last'.ok
            THEN /\ grant' = Merge(grant, [budgetCategories |-> uploadedCategories])
                 /\ parsedData' = <<>>
                 /\ columnMapping' = [description |-> "", amount |-> "", category |-> ""]
                 /\ categoryMapping' = <<>>
            ELSE UNCHANGED <<grant, uploadVars>>

\* rows of an uploaded sheet with the headers Item, Cost and Kind
UploadRows ==
    { ("Item" :> [str |-> <<"f">>]) @@ ("Cost" :> [num |-> 5])
          @@ ("Kind" :> [str |-> <<"T">>]),
      ("Item" :> [str |-> <<"k">>]) @@ ("Cost" :> [str |-> <<"$", "1", ",", "2">>])
          @@ ("Kind" :> [num |-> 7]),
      ("Cost" :> [num |-> 0]) @@ ("Kind" :> [str |-> <<"T">>]),
      ("Item" :> [str |-> <<"r">>]) @@ ("Cost" :> [num |-> (-3)]),
      ("Item" :> [str |-> <<"x">>]) @@ ("Cost" :> [str |-> <<"n", "-">>]),
      ("Item" :> [str |-> <<"n">>]) @@ ("Kind" :> [str |-> <<>>]) }

\* the sheets of at most MaxUploadRows rows
UploadSheets == UNION { [1..n -> UploadRows] : n \in 1..MaxUploadRows }

\* the columns the user maps each field to
ColumnChoices(field) ==
    CASE field = "description" -> {"", "Item"}
      [] field = "amount" -> {"", "Cost"}
      [] field = "category" -> {"", "Kind"}

\* the expense types the user maps raw categories to
UploadLabels == EXPENSE_CATEGORIES \cap {"Travel", "Other"}

\* getUniqueValues(column), as the keys the mapping is stored under
getUniqueValues(column) ==
    IF column = "" \/ parsedData = <<>> THEN {}
    ELSE { CellToString(parsedData[i][column]) :
               i \in {j \in 1..Len(parsedData) : Truthy(parsedData[j], column)} }

\* the upload dialog is shown for the page's grant
UploadOpen == grant # Null

\* the pages are used while the run has a document write left (Write)

\* handleFileUpload: the rows of the first sheet that have a value
HandleFileUpload ==
    /\ UploadOpen
    /\ Write
    /\ \E sheet \in UploadSheets : parsedData' = sheet
    /\ UNCHANGED <<ledgerVars, last, editorVars, calc, detailVars, columnMapping,
                   categoryMapping, expenseFormVars, dialogs>>

SetColumnMapping ==
    /\ UploadOpen
    /\ Write
    /\ parsedData # <<>>
    /\ \E field \in {"description", "amount", "category"} :
          \E column \in ColumnChoices(field) :
              columnMapping' = [columnMapping EXCEPT ![field] = column]
    /\ UNCHANGED <<ledgerVars, last, editorVars, calc, detailVars, parsedData,
                   categoryMapping, expenseFormVars, dialogs>>

SetCategoryMapping ==
    /\ UploadOpen
    /\ Write
    /\ \E value \in getUniqueValues(columnMapping.category) :
          \E label \in UploadLabels :
              categoryMapping' =
                  [k \in (DOMAIN categoryMapping) \cup {value} |->
                      IF k = value THEN label ELSE categoryMapping[k]]
    /\ UNCHANGED <<ledgerVars, last, editorVars, calc, detailVars, parsedData,
                   columnMapping, expenseFormVars, dialogs>>

HandleImport ==
    /\ UploadOpen
    /\ columnMapping.amount # ""
    /\ handleImport
    /\ UNCHANGED <<editorVars, calc, expenseForm, expenseFormVars, dialogs>>

InitUpload ==
    /\ grants = StoredGrants
    /\ expenses = StoredExpenses
    /\ nextId = FreeId(grants, expenses)
    /\ now = MaxWrites
    /\ last = NoCall
    /\ EditorsIdle

NextUpload ==
    \/ OpenGrantDetail
    \/ HandleFileUpload
    \/ SetColumnMapping
    \/ SetCategoryMapping
    \/ HandleImport

SpecUpload == InitUpload /\ [][NextUpload]_vars

(***************************************************************************)
(* ExpenseForm (src/renderer/components/ExpenseForm.tsx), opened from the  *)
(* Grants page, and the page's handleSaveExpense                           *)
(*                                                                         *)
(* The form's generateId returns a random text: FormId(k, temp) is the     *)
(* k-th such id, with temp telling whether the text happens to contain     *)
(* 'temp'.  The ids of the stored expenses do not contain it.              *)
(***************************************************************************)
FormId(k, temp) == 100 + 2 * k + (IF temp THEN 1 ELSE 0)

\* id.includes('temp')
IncludesTemp(id) == id >= 100 /\ id % 2 = 1

\* a document whose expenses were entered with a category and notes
CategorizedExpenses ==
    [i \in 1..Len(StoredExpenses) |->
        Merge(StoredExpenses[i], [category |-> "Travel", notes |-> ""])]

\* loadGrants: the page's grants are what grants:getAll returns
LoadGrants ==
    /\ Write
    /\ saving.index = 0
    /\ pageGrants' = getAll
    /\ UNCHANGED <<ledgerVars, last, editorVars, calc, detailVars, uploadVars,
                   formExpenses, selectedGrantForExpense, saving, dialogs>>

\* handleManageExpense: the form opens on the expenses the page holds for the
\* grant
HandleManageExpense ==
    /\ Write
    /\ selectedGrantForExpense = 0
    /\ \E i \in 1..Len(pageGrants) :
          /\ selectedGrantForExpense' = pageGrants[i].id
          /\ formExpenses' = FindGrant(pageGrants, pageGrants[i].id).expenses
    /\ UNCHANGED <<ledgerVars, last, editorVars, calc, detailVars, uploadVars,
                   pageGrants, saving, dialogs>>

\* the form's loadGrant and getAvailableBudgetCategories: the category names
\* of the form's grant without Indirect Costs
FormBudgetCategories ==
    LET g == FindGrant(getAll, selectedGrantForExpense)
    IN IF g = Null \/ "budgetCategories" \notin DOMAIN g THEN {}
       ELSE { g.budgetCategories[i].category : i \in 1..Len(g.budgetCategories) }
            \ {"Indirect Costs"}

\* the expenses the form has added: those with an id of the form
AddedCount == Cardinality({i \in 1..Len(formExpenses) : formExpenses[i].id >= 100})

FormIdle == selectedGrantForExpense # 0 /\ saving.index = 0 /\ Write

\* addExpense(category)
AddExpense ==
    /\ FormIdle
    /\ AddedCount < MaxFormExpenses
    /\ \E category \in FormBudgetCategories, temp \in BOOLEAN :
          formExpenses' =
              Append(formExpenses,
                     [id |-> FormId(Len(formExpenses), temp), description |-> "",
                      amount |-> 0, category |-> category, date |-> Today,
                      notes |-> "", createdAt |-> now, updatedAt |-> now,
                      grantId |-> selectedGrantForExpense])
    /\ UNCHANGED <<ledgerVars, last, editorVars, calc, detailVars, uploadVars,
                   selectedGrantForExpense, pageGrants, saving, dialogs>>

\* what the user enters in an expense's inputs
FormExpenseUpdates == { [description |-> "E9"], [amount |-> 9] }

\* updateExpense(id, updates)
UpdateFormExpense ==
    /\ FormIdle
    /\ \E i \in 1..Len(formExpenses), updates \in FormExpenseUpdates :
          formExpenses' =
              [j \in 1..Len(formExpenses) |->
                  IF formExpenses[j].id = formExpenses[i].id
                  THEN Merge(Merge(formExpenses[j], updates), [updatedAt |-> now])
                  ELSE formExpenses[j]]
    /\ UNCHANGED <<ledgerVars, last, editorVars, calc, detailVars, uploadVars,
                   selectedGrantForExpense, pageGrants, saving, dialogs>>

\* deleteExpense(id)
DeleteFormExpense ==
    /\ FormIdle
    /\ \E i \in 1..Len(formExpenses) :
          formExpenses' =
              SelectSeq(formExpenses, LAMBDA expense : expense.id # formExpenses[i].id)
    /\ UNCHANGED <<ledgerVars, last, editorVars, calc, detailVars, uploadVars,
                   selectedGrantForExpense, pageGrants, saving, dialogs>>

\* exp.description.trim() && exp.amount > 0 && exp.category && exp.date
ValidExpense(exp) ==
    /\ "description" \in DOMAIN exp /\ exp.description # ""
    /\ exp.amount > 0
    /\ "category" \in DOMAIN exp /\ exp.category # ""
    /\ "date" \in DOMAIN exp /\ exp.date # <<>>

\* handleSave: with every expense valid, onSave(validExpenses), which is the
\* page's handleSaveExpense; it starts its loop over the list
HandleSave ==
    /\ FormIdle
    /\ \A i \in 1..Len(formExpenses) : ValidExpense(formExpenses[i])
    /\ saving' = [index |-> 1, before |-> expenses]
    /\ UNCHANGED <<ledgerVars, last, editorVars, calc, detailVars, uploadVars,
                   formExpenses, selectedGrantForExpense, pageGrants, dialogs>>

\* the fields handleSaveExpense sends for an expense
SentFields(expense) ==
    [description |-> expense.description, amount |-> expense.amount,
     category |-> expense.category, date |-> expense.date,
     notes |-> IF "notes" \in DOMAIN expense THEN expense.notes ELSE ""]

\* one iteration of the loop of handleSaveExpense: expenses.create for an
\* expense whose id contains 'temp', expenses.update for any other
saveExpense(expense) ==
    IF IncludesTemp(expense.id)
    THEN expensesCreate(Merge(SentFields(expense),
                              [grantId |-> selectedGrantForExpense]))
    ELSE expensesUpdate(expense.id, SentFields(expense))

\* the loop goes on after a call that returned and ends, with the form left
\* open, at a call that threw
SaveNext ==
    /\ saving.index > 0
    /\ saving.index <= Len(formExpenses)
    /\ saveExpense(formExpenses[saving.index])
    /\ saving' = IF last'.ok THEN [saving EXCEPT !.index = @ + 1] ELSE [index |-> 0]
    /\ UNCHANGED <<editorVars, calc, detailVars, uploadVars, formExpenses,
                   selectedGrantForExpense, pageGrants, dialogs>>

\* after the loop: loadGrants, and the form closes
SaveDone ==
    /\ saving.index > Len(formExpenses)
    /\ pageGrants' = getAll
    /\ selectedGrantForExpense' = 0
    /\ formExpenses' = <<>>
    /\ saving' = [index |-> 0]
    /\ last' = [op |-> "handleSaveExpense", ok |-> TRUE,
                grantId |-> selectedGrantForExpense, list |-> formExpenses,
                before |-> saving.before]
    /\ UNCHANGED <<ledgerVars, editorVars, calc, detailVars, uploadVars, dialogs>>

\* handleCancelExpense
HandleCancelExpense ==
    /\ FormIdle
    /\ selectedGrantForExpense' = 0
    /\ formExpenses' = <<>>
    /\ UNCHANGED <<ledgerVars, last, editorVars, calc, detailVars, uploadVars,
                   pageGrants, saving, dialogs>>

InitExpense ==
    /\ grants = StoredGrants
    /\ expenses = CategorizedExpenses
    /\ nextId = FreeId(grants, expenses)
    /\ now = 1
    /\ last = NoCall
    /\ EditorsIdle

NextExpense ==
    \/ LoadGrants
    \/ HandleManageExpense
    \/ AddExpense
    \/ UpdateFormExpense
    \/ DeleteFormExpense
    \/ HandleSave
    \/ SaveNext
    \/ SaveDone
    \/ HandleCancelExpense

SpecExpense == InitExpense /\ [][NextExpense]_vars

(***************************************************************************)
(* Properties                                                              *)
(***************************************************************************)
IdsDistinct(arr) == \A i, j \in 1..Len(arr) : arr[i].id = arr[j].id => i = j

\* C1: a successful deleteGrant(g) removes one grant, the first whose id is g,
\* and every expense whose grantId is g, in the same step; every other grant
\* and every expense of another grant stays, unchanged and in the same order;
\* where grant ids are distinct no grant with id g is left.
C1_DeleteGrantCascade ==
    [][ (last'.op = "grants:delete" /\ last'.ok) =>
          LET g == last'.id
          IN /\ \E i \in 1..Len(grants) :
                   /\ grants[i].id = g
                   /\ \A j \in 1..(i - 1) : grants[j].id # g
                   /\ last'.ret = grants[i]
                   /\ Len(grants') = Len(grants) - 1
                   /\ \A j \in 1..Len(grants') :
                         grants'[j] = IF j < i THEN grants[j] ELSE grants[j + 1]
             /\ expenses' = SelectSeq(expenses, LAMBDA e : e.grantId # g)
             /\ IdsDistinct(grants) => \A j \in 1..Len(grants') : grants'[j].id # g
      ]_vars

\* C1 witness: grant 1 with its two expenses has been deleted from the stored
\* document; grant 2 and its expense are what is left.
C1_Witness ==
    /\ last.op = "grants:delete" /\ last.ok /\ last.id = 1
    /\ grants = <<StoredGrants[2]>>
    /\ expenses = <<StoredExpenses[3]>>

\* C2: every stored expense's grantId is the id of a stored grant.
C2_ReferentialIntegrity ==
    \A i \in 1..Len(expenses) :
        \E j \in 1..Len(grants) : grants[j].id = expenses[i].grantId

\* The calculator as section 4.1 of the specification states it: the product
\* of the type's parameters, a missing parameter counting as 0.
Val(budget, field) == IF field \in DOMAIN budget THEN budget[field] ELSE 0

compute(budget) ==
    CASE TypeOf(budget) = "pi_salary" ->
             Val(budget, "monthlyRate") * Val(budget, "numberOfMonths")
      [] TypeOf(budget) = "student_salary" ->
             Val(budget, "monthlyRate") * Val(budget, "numberOfMonths")
             * Val(budget, "numberOfStudents")
      [] TypeOf(budget) = "tuition" ->
             Val(budget, "yearlyRate") * Val(budget, "numberOfYears")
             * Val(budget, "numberOfStudents")
      [] TypeOf(budget) = "travel" ->
             Val(budget, "costPerTrip") * Val(budget, "numberOfTrips")
      [] OTHER -> Val(budget, "amount")

IsDerivable(budget) == TypeOf(budget) \in DerivableTypes

\* the categories the store holds for grant id (of the first grant with the id)
StoredCategories(id) ==
    LET found == {i \in 1..Len(grants) : grants[i].id = id}
    IN IF found = {} THEN <<>>
       ELSE grants[CHOOSE i \in found : \A j \in found : i <= j].budgetCategories

AllStoredCategories ==
    UNION { {grants[i].budgetCategories[k] : k \in 1..Len(grants[i].budgetCategories)} :
            i \in 1..Len(grants) }

\* C3: after budget.update or budget.import every stored category of a
\* derivable type has amount = compute(type, its stored parameters).
C3_StoredAmountIsComputed ==
    (last.op \in {"budget:update", "budget:import"} /\ last.ok) =>
        \A k \in 1..Len(StoredCategories(last.id)) :
            LET c == StoredCategories(last.id)[k]
            IN IsDerivable(c) => c.amount = compute(c)

\* C4: in the budget editors every category of a derivable type satisfies
\* amount = compute(type, current parameters).
C4_EditorAmountIsComputed ==
    /\ \A i \in 1..Len(budgets) :
          IsDerivable(budgets[i]) => budgets[i].amount = compute(budgets[i])
    /\ \A i \in 1..Len(formBudgetCategories) :
          IsDerivable(formBudgetCategories[i]) =>
              formBudgetCategories[i].amount = compute(formBudgetCategories[i])

\* C5: for non-negative parameter values, zero included, both calculators
\* return the product of the type's parameters, and the supplied amount for
\* the flat types.
C5_CalculatorIsProduct ==
    ( /\ calc.done
      /\ ParamFields(TypeOf(calc.budget)) \subseteq DOMAIN calc.budget
      /\ \A f \in ParamFields(TypeOf(calc.budget)) : calc.budget[f] >= 0 ) =>
        /\ calc.amount = compute(calc.budget)
        /\ calc.formAmount = compute(calc.budget)

DefaultOf(field) ==
    IF field \in {"numberOfStudents", "numberOfYears", "numberOfTrips"} THEN 1 ELSE 0

NumericParams ==
    {"monthlyRate", "numberOfMonths", "numberOfStudents", "yearlyRate", "numberOfYears",
     "numberOfTrips", "costPerTrip"}

\* C7: no stored category has a negative rate or quantity parameter, or a
\* negative derived amount.
C7_NoNegativeParameterStored ==
    \A c \in AllStoredCategories :
        /\ \A f \in NumericParams \cap DOMAIN c : c[f] >= 0
        /\ IsDerivable(c) => c.amount >= 0

\* C8: every budget category held by a grant has amount >= 0.
C8_AmountNonNegative ==
    \A c \in AllStoredCategories : c.amount >= 0

\* calendar dates and their order
IsCalendarDate(d) == Len(d) = 3

CalLe(a, b) ==
    \/ a[1] < b[1]
    \/ a[1] = b[1] /\ a[2] < b[2]
    \/ a[1] = b[1] /\ a[2] = b[2] /\ a[3] <= b[3]

CalInRange(e, startDate, endDate) ==
    /\ "date" \in DOMAIN e
    /\ IsCalendarDate(e.date) /\ IsCalendarDate(startDate) /\ IsCalendarDate(endDate)
    /\ CalLe(startDate, e.date)
    /\ CalLe(e.date, endDate)

\* a returned expense without the grant snapshot joined to it
Strip(r) == [k \in (DOMAIN r) \ {"grant"} |-> r[k]]

IsQuery == last.op = "expenses:getByDateRange"

\* the stored expenses in the queried range, in stored order
InRangeExpenses == SelectSeq(expenses, LAMBDA e : CalInRange(e, last.startDate, last.endDate))

\* ret holds exactly the expenses of matches, each once
ExactlyThese(ret, matches) ==
    /\ Len(ret) = Len(matches)
    /\ \E p \in Permutations(1..Len(ret)) :
          \A k \in 1..Len(ret) : Strip(ret[k]) = matches[p[k]]

\* C9 as stated: getByDateRange(start, end) returns exactly the stored expenses
\* with start <= date <= end, strictly ascending by date.
C9_ExactAndStrictlySorted ==
    (IsQuery /\ ~last.grantIds.supplied) =>
        /\ ExactlyThese(last.ret, InRangeExpenses)
        /\ \A k \in 1..(Len(last.ret) - 1) :
              /\ CalLe(last.ret[k].date, last.ret[k + 1].date)
              /\ last.ret[k].date # last.ret[k + 1].date

\* C9 as amended: getByDateRange(start, end) returns exactly the stored
\* expenses with start <= date <= end, both bounds inclusive, sorted ascending
\* by date; expenses of the same date follow one another.
C9_ExactAndSorted ==
    (IsQuery /\ ~last.grantIds.supplied) =>
        /\ ExactlyThese(last.ret, InRangeExpenses)
        /\ \A k \in 1..(Len(last.ret) - 1) :
              CalLe(last.ret[k].date, last.ret[k + 1].date)

\* C9 witness: a query from 2024-12-31 to 2025-01-15 has returned three
\* expenses, the first dated on the start bound, the last two both dated on
\* the end bound, and has left out the stored expense of 2025-02-01.
C9_Witness ==
    /\ IsQuery /\ ~last.grantIds.supplied
    /\ last.startDate = D1 /\ last.endDate = D2
    /\ Len(last.ret) = 3
    /\ last.ret[1].date = D1 /\ last.ret[2].date = D2 /\ last.ret[3].date = D2
    /\ \E i \in 1..Len(expenses) : "date" \in DOMAIN expenses[i] /\ expenses[i].date = D3

\* C10: an in-range expense is returned if and only if grantIds is omitted or
\* holds its grantId; an empty grantIds list yields an empty result.
C10_GrantFilter ==
    IsQuery =>
        /\ \A i \in 1..Len(InRangeExpenses) :
              LET e == InRangeExpenses[i]
              IN (\E k \in 1..Len(last.ret) : Strip(last.ret[k]) = e)
                 <=> ( \/ ~last.grantIds.supplied
                       \/ \E n \in 1..Len(last.grantIds.ids) :
                             last.grantIds.ids[n] = e.grantId )
        /\ (last.grantIds.supplied /\ last.grantIds.ids = <<>>) => last.ret = <<>>

\* C10 witness: a query filtered on grant 1 has returned that grant's in-range
\* expenses and left out an in-range expense of another grant.
C10_Witness ==
    /\ IsQuery /\ last.grantIds.supplied /\ last.grantIds.ids = <<1>>
    /\ Len(last.ret) > 0
    /\ \A k \in 1..Len(last.ret) : last.ret[k].grantId = 1
    /\ \E i \in 1..Len(InRangeExpenses) : InRangeExpenses[i].grantId # 1

\* C10 witness for the empty list: nothing is returned although the range
\* holds expenses.
C10_WitnessEmptyList ==
    /\ IsQuery /\ last.grantIds.supplied /\ last.grantIds.ids = <<>>
    /\ last.ret = <<>>
    /\ Len(InRangeExpenses) > 0

\* C11: every expense returned by getByDateRange carries a grant field that is
\* a stored grant whose id is the expense's grantId, and that grant snapshot
\* has no expenses property.
C11_GrantSnapshot ==
    IsQuery =>
        \A k \in 1..Len(last.ret) :
            /\ "grant" \in DOMAIN last.ret[k]
            /\ \E i \in 1..Len(grants) :
                  /\ grants[i].id = last.ret[k].grantId
                  /\ last.ret[k].grant = grants[i]
            /\ "expenses" \notin DOMAIN last.ret[k].grant

\* every id in a document: of its grants, their categories and its expenses
IdsOf(gs, es) ==
    {gs[i].id : i \in 1..Len(gs)} \cup {es[i].id : i \in 1..Len(es)}
    \cup UNION { {gs[i].budgetCategories[k].id :
                       k \in {n \in 1..Len(gs[i].budgetCategories) :
                                 "id" \in DOMAIN gs[i].budgetCategories[n]}} :
                    i \in {j \in 1..Len(gs) : "budgetCategories" \in DOMAIN gs[j]} }

\* a record without its id and createdAt
Payload(r) == [f \in (DOMAIN r) \ {"id", "createdAt"} |-> r[f]]

\* the grant a call with this id acts on: the first one with the id
Target(id) == FindIndex(grants, id)

\* C12: a successful budget.import(grantId, categories) leaves the grant with
\* exactly one category per input element, in input order and with the input's
\* content, each under an id that no grant, category or expense had before the
\* call and that is not the id the caller supplied; the ids are distinct and
\* the call returns the new list.  Every other grant and every expense is
\* unchanged.
C12_ImportReplaces ==
    [][ (last'.op = "budget:import" /\ last'.ok) =>
          LET i == Target(last'.id)
              arg == last'.arg
              cats == grants'[i].budgetCategories
          IN /\ i > 0
             /\ Len(cats) = Len(arg)
             /\ \A k \in 1..Len(arg) :
                   /\ Payload(cats[k]) = Payload(arg[k])
                   /\ cats[k].id \notin IdsOf(grants, expenses)
                   /\ ("id" \in DOMAIN arg[k]) => (cats[k].id # arg[k].id)
                   /\ \A m \in 1..Len(arg) : cats[k].id = cats[m].id => k = m
             /\ last'.ret = cats
             /\ Len(grants') = Len(grants)
             /\ \A j \in 1..Len(grants) : j # i => grants'[j] = grants[j]
             /\ expenses' = expenses
      ]_vars

\* C12 witness: a second import on grant 1 has replaced the one category of
\* the first import (id 6) by the two of its input, under the ids 7 and 8 and
\* not the caller's 91 and 92.
C12_Witness ==
    /\ last.op = "budget:import" /\ last.ok /\ last.id = 1
    /\ Len(last.arg) = 2 /\ last.arg[1].id = 91 /\ last.arg[2].id = 92
    /\ expenses = StoredExpenses
    /\ Len(grants) = 2 /\ grants[2] = StoredGrants[2]
    /\ grants[1].id = 1 /\ grants[1].updatedAt = 2
    /\ Len(grants[1].budgetCategories) = 2
    /\ grants[1].budgetCategories[1].id = 7
    /\ grants[1].budgetCategories[2].id = 8
    /\ grants[1].budgetCategories[1].type = "travel"

\* a record without the named fields
Without(r, fields) == [f \in (DOMAIN r) \ fields |-> r[f]]

\* C13: a successful budget.update(grantId, categories) makes the grant's
\* category list the supplied list, ids included, and returns it; of the grant
\* only budgetCategories and updatedAt change, and every other grant and every
\* expense is unchanged; a budget.get(grantId) that follows returns the
\* supplied list.
C13_UpdateReplaces ==
    [][ /\ (last'.op = "budget:update" /\ last'.ok) =>
              LET i == Target(last'.id)
              IN /\ i > 0
                 /\ grants'[i].budgetCategories = last'.arg
                 /\ last'.ret = last'.arg
                 /\ Without(grants'[i], {"budgetCategories", "updatedAt"})
                       = Without(grants[i], {"budgetCategories", "updatedAt"})
                 /\ Len(grants') = Len(grants)
                 /\ \A j \in 1..Len(grants) : j # i => grants'[j] = grants[j]
                 /\ expenses' = expenses
        /\ (/\ last.op = "budget:update" /\ last.ok
            /\ last'.op = "budget:get" /\ last'.id = last.id) =>
              last'.ret = last.arg
      ]_vars

\* C13 witness: budget.get(1) returns the two categories, with the caller's
\* ids 91 and 92, that a budget.update stored on grant 1, which had none.
C13_Witness ==
    /\ last.op = "budget:get" /\ last.id = 1
    /\ Len(last.ret) = 2 /\ last.ret[1].id = 91 /\ last.ret[2].id = 92
    /\ Len(grants) = 2 /\ grants[1].id = 1 /\ grants[1].updatedAt = 1
    /\ grants[1].budgetCategories = last.ret
    /\ grants[2] = StoredGrants[2]
    /\ expenses = StoredExpenses

\* the handlers that take the id of a grant and those that take the id of an
\* expense
GrantIdOps == {"grants:update", "grants:delete", "budget:import", "budget:update"}
ExpenseIdOps == {"expenses:update", "expenses:delete"}

\* C14: updateGrant, deleteGrant, budget.import and budget.update fail exactly
\* when no stored grant has the id, updateExpense and deleteExpense exactly
\* when no stored expense has it; a failed call leaves the document, the grants
\* and the expenses, as it was.
C14_NotFoundLeavesDocument ==
    [][ /\ last'.op \in GrantIdOps =>
              (last'.ok <=> \E i \in 1..Len(grants) : grants[i].id = last'.id)
        /\ last'.op \in ExpenseIdOps =>
              (last'.ok <=> \E i \in 1..Len(expenses) : expenses[i].id = last'.id)
        /\ (last'.op \in GrantIdOps \cup ExpenseIdOps /\ ~last'.ok) =>
              /\ grants' = grants
              /\ expenses' = expenses
      ]_vars

\* C14 witness: updateGrant with an id that is not in the store has failed and
\* the stored document is the one of before.
C14_Witness ==
    /\ last.op = "grants:update" /\ ~last.ok
    /\ \A i \in 1..Len(grants) : grants[i].id # last.id
    /\ grants = StoredGrants
    /\ expenses = StoredExpenses

\* C15: createGrant(data) succeeds and appends exactly one grant, which it
\* returns: data under the id the store generates, whatever id data has, an id
\* that nothing in the document had, with createdAt and updatedAt set, and with
\* budgetCategories the empty list when data has none; the grants of before
\* and the expenses are unchanged.
C15_CreateGrant ==
    [][ last'.op = "grants:create" =>
          /\ last'.ok
          /\ Len(grants') = Len(grants) + 1
          /\ SubSeq(grants', 1, Len(grants)) = grants
          /\ expenses' = expenses
          /\ LET g == grants'[Len(grants')]
                 data == last'.arg
             IN /\ last'.ret = g
                /\ g.id = nextId
                /\ g.id \notin IdsOf(grants, expenses)
                /\ g.createdAt = now /\ g.updatedAt = now
                /\ Without(g, {"id", "createdAt", "updatedAt", "budgetCategories"})
                      = Without(data, {"id", "createdAt", "updatedAt", "budgetCategories"})
                /\ "budgetCategories" \in DOMAIN g
                /\ g.budgetCategories = IF "budgetCategories" \in DOMAIN data
                                        THEN data.budgetCategories ELSE <<>>
      ]_vars

\* C16: a successful updateGrant(id, partial) changes one grant, the first with
\* the id, and returns it: every field of partial has partial's value, every
\* other field but updatedAt has the value of before, no field is lost,
\* updatedAt is the time of the call; the grant keeps its position, every
\* other grant and every expense is unchanged.
C16_UpdateGrantFrame ==
    [][ (last'.op = "grants:update" /\ last'.ok) =>
          LET i == Target(last'.id)
              partial == last'.arg
          IN /\ i > 0
             /\ Len(grants') = Len(grants)
             /\ \A j \in 1..Len(grants) : j # i => grants'[j] = grants[j]
             /\ expenses' = expenses
             /\ last'.ret = grants'[i]
             /\ DOMAIN grants'[i] = (DOMAIN grants[i]) \cup (DOMAIN partial) \cup {"updatedAt"}
             /\ \A f \in (DOMAIN partial) \ {"updatedAt"} : grants'[i][f] = partial[f]
             /\ \A f \in (DOMAIN grants[i]) \ ((DOMAIN partial) \cup {"updatedAt"}) :
                   grants'[i][f] = grants[i][f]
             /\ grants'[i].updatedAt = now
      ]_vars

\* C16 witness: updateGrant(1, {title}) on the stored document has renamed
\* grant 1 in place and refreshed its updatedAt; its other fields, grant 2 and
\* the expenses are those of before.
C16_Witness ==
    /\ last.op = "grants:update" /\ last.ok /\ last.id = 1
    /\ last.arg = [title |-> "renamed"]
    /\ Len(grants) = 2
    /\ grants[1] = [id |-> 1, title |-> "renamed", budgetCategories |-> <<>>,
                    createdAt |-> 0, updatedAt |-> 1]
    /\ grants[2] = StoredGrants[2]
    /\ expenses = StoredExpenses

\* C17: getAll() returns one element per stored grant, in stored order: the
\* grant's stored fields and an expenses field holding exactly the stored
\* expenses whose grantId is the grant's id, each once, whatever expenses
\* property the stored grant has; the call leaves the document as it was.
C17_GetAllJoin ==
    [][ last'.op = "grants:getAll" =>
          /\ grants' = grants
          /\ expenses' = expenses
          /\ Len(last'.ret) = Len(grants)
          /\ \A i \in 1..Len(grants) :
                LET r == last'.ret[i]
                    own == {k \in 1..Len(expenses) : expenses[k].grantId = grants[i].id}
                IN /\ Without(r, {"expenses"}) = Without(grants[i], {"expenses"})
                   /\ "expenses" \in DOMAIN r
                   /\ Len(r.expenses) = Cardinality(own)
                   /\ \A k \in own : \E m \in 1..Len(r.expenses) : r.expenses[m] = expenses[k]
                   /\ \A m \in 1..Len(r.expenses) : r.expenses[m].grantId = grants[i].id
      ]_vars

\* C17 witness: grant 1 is stored with an empty expenses property, and getAll
\* returns it with its two stored expenses and grant 2 with its one.
C17_Witness ==
    /\ last.op = "grants:getAll"
    /\ Len(grants) = 2 /\ expenses = StoredExpenses
    /\ grants[1].id = 1 /\ "expenses" \in DOMAIN grants[1] /\ grants[1].expenses = <<>>
    /\ last.ret[1].expenses = <<StoredExpenses[1], StoredExpenses[2]>>
    /\ last.ret[2].expenses = <<StoredExpenses[3]>>
    /\ "expenses" \notin DOMAIN grants[2]

\* a row has a non-empty cell under one of the headers
HasCell(row, headers) == \E h \in headers : h \in DOMAIN row /\ row[h] # ""

\* a row that has title, agency and number
RowComplete(row) ==
    /\ HasCell(row, {"Grant Title", "Title", "title"})
    /\ HasCell(row, {"Agency", "agency"})
    /\ HasCell(row, {"Grant Number", "Number", "number"})

ImportSucceeded == last'.op = ImportOp /\ last'.ret.success

\* C18: a successful structured import reports as grantsCount the number of
\* rows that have title, agency and number, and adds that many grants to the
\* store: one for each such row, in row order, whatever rows without one of
\* the three fields stand before or after it; those rows add nothing.
C18_SkippedRowsNotCounted ==
    [][ ImportSucceeded =>
          LET complete == SelectSeq(last'.data, LAMBDA row : RowComplete(row))
          IN /\ last'.ret.grantsCount = Len(complete)
             /\ Len(grants') = Len(grants) + Len(complete)
             /\ SubSeq(grants', 1, Len(grants)) = grants
             /\ \A k \in 1..Len(complete) :
                   grants'[Len(grants) + k].title
                       = TextCell(complete[k], <<"Grant Title", "Title", "title">>, "")
      ]_vars

\* C18 witness: of a sheet whose first row has no title and whose second row
\* is complete, the import has created and counted one grant, the second
\* row's, after the two stored grants.
C18_Witness ==
    /\ last.op = ImportOp /\ last.ret.success
    /\ last.data = <<RowNoTitle, RowFull>>
    /\ last.ret.grantsCount = 1
    /\ Len(grants) = 3 /\ grants[1] = StoredGrants[1] /\ grants[2] = StoredGrants[2]
    /\ grants[3].title = "T1"

\* the number of budget categories in a list of grants
RECURSIVE CountCategories(_)
CountCategories(gs) ==
    IF gs = <<>> THEN 0
    ELSE Len(Head(gs).budgetCategories) + CountCategories(Tail(gs))

\* C19: the categoriesCount of a successful structured import is the number of
\* budget categories in the grants that the import added to the store.
C19_CategoriesCount ==
    [][ ImportSucceeded =>
          /\ Len(grants') >= Len(grants)
          /\ last'.ret.categoriesCount
                = CountCategories(SubSeq(grants', Len(grants) + 1, Len(grants')))
      ]_vars

\* C19 witness: a complete row with a travel and a generic category, followed
\* by a row without a number that has a PI salary column: two categories are
\* counted, those of the one grant added.
C19_Witness ==
    /\ last.op = ImportOp /\ last.ret.success
    /\ last.data = <<RowFull, RowNoNumber>>
    /\ last.ret.categoriesCount = 2
    /\ Len(grants) = 1
    /\ Len(grants[1].budgetCategories) = 2
    /\ grants[1].budgetCategories[1].type = "travel"
    /\ grants[1].budgetCategories[2].type = "other"

\* C20: an import that returns success = false leaves the document, grants
\* and expenses, as it was.
C20_FailedImportCommitsNothing ==
    [][ (last'.op = ImportOp /\ ~last'.ret.success) =>
          /\ grants' = grants
          /\ expenses' = expenses
      ]_vars

\* C20 witness: the import of a sheet without rows has failed and the
\* document is the stored one.
C20_Witness ==
    /\ last.op = ImportOp /\ ~last.ret.success
    /\ last.ret.error = "No data found in Excel file"
    /\ grants = StoredGrants
    /\ expenses = StoredExpenses


\* the rows of a sheet that the import turns into grants, in sheet order
KeptRows(data) == SelectSeq(data, RowComplete)

\* the categories of a grant that have the given type
TypedOf(g, type) == SelectSeq(g.budgetCategories, LAMBDA c : c.type = type)

\* the amount the import reads for a budget type: the first non-empty cell
\* under the type's header or its lower-case form, 0 when there is none
AmountColumn(row, budgetType) ==
    IF budgetType.key \in DOMAIN row /\ row[budgetType.key] # 0
    THEN row[budgetType.key]
    ELSE IF budgetType.lower \in DOMAIN row THEN row[budgetType.lower] ELSE 0

\* C21 (first half): a successful structured import gives the grant of a row
\* one category of each of the six budget types whose amount column is present
\* and > 0, and none of the other types.
C21_CategoryIffAmountColumn ==
    [][ ImportSucceeded =>
          LET kept == KeptRows(last'.data)
          IN \A k \in 1..Len(kept) : \A t \in 1..Len(budgetTypes) :
                 Len(TypedOf(grants'[Len(grants) + k], budgetTypes[t].type))
                     = IF AmountColumn(kept[k], budgetTypes[t]) > 0 THEN 1 ELSE 0
      ]_vars

\* C21: a successful structured import gives the grant of a row a category of
\* each of the six budget types exactly when the type's amount column is
\* present and > 0, and every created pi_salary, student_salary, tuition or
\* travel category has the amount the calculator gives for its parameters.
C21_ImportUsesCalculator ==
    [][ ImportSucceeded =>
          LET kept == KeptRows(last'.data)
          IN \A k \in 1..Len(kept) : \A t \in 1..Len(budgetTypes) :
                 LET cs == TypedOf(grants'[Len(grants) + k], budgetTypes[t].type)
                 IN /\ Len(cs) = IF AmountColumn(kept[k], budgetTypes[t]) > 0 THEN 1 ELSE 0
                    /\ budgetTypes[t].type \in DerivableTypes =>
                           \A i \in 1..Len(cs) : cs[i].amount = calculateAmount(cs[i])
      ]_vars

\* the result of parsing the amount cell of row i of the uploaded sheet
ParsedAmount(i) == parseAmount(parsedData[i], columnMapping.amount)

\* the rows of the uploaded sheet whose parsed amount is > 0, in sheet order
PositiveRows ==
    SelectSeq([i \in 1..Len(parsedData) |-> i],
              LAMBDA i : ~ParsedAmount(i).nan /\ ParsedAmount(i).val > 0)

\* the raw category value of row i has a mapping
HasMapping(i) ==
    /\ columnMapping.category # ""
    /\ Truthy(parsedData[i], columnMapping.category)
    /\ CellToString(parsedData[i][columnMapping.category]) \in DOMAIN categoryMapping

\* C22: the flat category import sends to budget.import one item for each row
\* whose parsed amount is > 0 and none for any other row, in sheet order, with
\* the parsed amount; the item's category is the mapped label when the
\* category column is mapped and the row's raw value has a mapping, and
\* "Other" in every other case.
C22_UploadSendsPositiveRows ==
    [][ last'.op = "budget:import" =>
          LET sent == last'.arg
          IN /\ Len(sent) = Len(PositiveRows)
             /\ \A j \in 1..Len(sent) :
                   LET i == PositiveRows[j]
                   IN /\ sent[j].amount = ParsedAmount(i).val
                      /\ sent[j].amount > 0
                      /\ sent[j].category =
                             IF HasMapping(i)
                             THEN categoryMapping[
                                      CellToString(parsedData[i][columnMapping.category])]
                             ELSE "Other"
      ]_vars

\* C22 witness: a sheet has been imported with kind T mapped to Travel and the
\* Item column as the description; one item was sent, that of the row f with
\* amount 5, as Travel.
C22_Witness ==
    /\ last.op = "budget:import" /\ last.ok
    /\ Len(last.arg) = 1
    /\ last.arg[1].category = "Travel"
    /\ last.arg[1].amount = 5
    /\ last.arg[1].description = <<"f">>

\* the budget category types of the data model
CategoryTypes ==
    {"pi_salary", "student_salary", "travel", "materials", "publication", "tuition",
     "indirect", "other"}

\* C23: every budget category stored in a grant has a type in {pi_salary,
\* student_salary, travel, materials, publication, tuition, indirect, other},
\* the categories stored by the flat category import included.
C23_StoredCategoryTypes ==
    \A c \in AllStoredCategories : "type" \in DOMAIN c /\ c.type \in CategoryTypes

\* a step in which a suspended import call resumes and runs to its end
Resumes(k) == ~dialogs[k].done /\ dialogs'[k].done

\* C24: requests are handled one at a time, also while an import waits for its
\* file dialog.  An import that resumes builds on the document as it is then:
\* every grant and expense that the handlers completed in the meantime wrote
\* is in the document the import writes, the grants in the same order, and the
\* import only appends; a failed import writes nothing.  getAll returns the
\* document of the last completed write, each grant with its expenses.
C24_NoLostUpdate ==
    [][ /\ \A k \in 1..Len(dialogs) : Resumes(k) =>
              /\ expenses' = expenses
              /\ Len(grants') >= Len(grants)
              /\ SubSeq(grants', 1, Len(grants)) = grants
              /\ ~last'.ret.success => grants' = grants
        /\ last'.op = "grants:getAll" =>
              /\ Len(last'.ret) = Len(grants)
              /\ \A i \in 1..Len(grants) :
                    /\ Without(last'.ret[i], {"expenses"}) = Without(grants[i], {"expenses"})
                    /\ last'.ret[i].expenses =
                           SelectSeq(expenses, LAMBDA e : e.grantId = grants[i].id)
      ]_vars

\* C24 witness: an import was suspended, a grant was created while it waited,
\* and the import then resumed and added a grant: the document has the stored
\* grants, the created grant and the imported one after it.
C24_Witness ==
    /\ last.op = ImportOp /\ last.ret.success
    /\ \E k \in 1..Len(dialogs) :
          dialogs[k].done /\ dialogs[k].began = 1 /\ dialogs[k].resumed = 2
    /\ Len(grants) = 4
    /\ SubSeq(grants, 1, 2) = StoredGrants
    /\ grants[3].title = "G3"
    /\ grants[4].title = "T1"
    /\ expenses = StoredExpenses

\* C25: every stored expense has a non-empty description and an amount > 0,
\* whichever path created or updated it.
C25_ExpenseValid ==
    \A i \in 1..Len(expenses) :
        /\ "description" \in DOMAIN expenses[i] /\ expenses[i].description # ""
        /\ "amount" \in DOMAIN expenses[i] /\ expenses[i].amount > 0

\* C28: in GrantDetail a displayed grant has an expenses list; after
\* handleSaveBudget it is the list the grant had before the save.
C28_DisplayedGrantHasExpenses ==
    [][ /\ grant' # Null => "expenses" \in DOMAIN grant'
        /\ (last'.op = "grants:update" /\ last'.ok) =>
               "expenses" \in DOMAIN grant' /\ grant'.expenses = grant.expenses
      ]_vars

\* C26: updateGrant(id, partial) and updateExpense(id, partial) return and
\* store a record whose id is id, whatever the partial carries, and the ids of
\* the stored grants are pairwise distinct, as are the ids of the stored
\* expenses.
C26_UpdateKeepsId ==
    [][ /\ (last'.op \in {"grants:update", "expenses:update"} /\ last'.ok) =>
               last'.ret.id = last'.id
        /\ IdsDistinct(grants')
        /\ IdsDistinct(expenses')
      ]_vars

\* the step is an iteration of the loop of handleSaveExpense
SaveIteration == saving.index > 0 /\ saving.index <= Len(formExpenses)

\* the expense the loop of handleSaveExpense is at
SavedExpense == formExpenses[saving.index]

\* C27: handleSaveExpense persists an expense that was added in the form,
\* one the ledger does not hold yet, by calling expenses.create for the
\* expense, and the call succeeds.
C27_AddedExpenseCreated ==
    [][(SaveIteration /\ FindIndex(expenses, SavedExpense.id) = 0)
          => (last'.op = "expenses:create" /\ last'.ok)]_vars

\* what the form shows of an expense and the ledger keeps of it
Shown(expense) ==
    [description |-> expense.description, amount |-> expense.amount,
     category |-> expense.category, date |-> expense.date]

\* the ledger's expenses of a grant, in order
ExpensesOf(es, grantId) == SelectSeq(es, LAMBDA e : e.grantId = grantId)

\* C29: after handleSaveExpense has succeeded, the ledger's expenses for the
\* grant are exactly the list the form showed: as many, and the same
\* descriptions, amounts, categories and dates.
C29_LedgerMatchesForm ==
    [][(last'.op = "handleSaveExpense" /\ last' # last)
          => LET kept == ExpensesOf(expenses', last'.grantId)
             IN /\ Len(kept) = Len(last'.list)
                /\ \A i \in 1..Len(kept) : Shown(kept[i]) = Shown(last'.list[i])]_vars

\* C29: when an iteration of handleSaveExpense fails, the ledger's expenses
\* are the ones from before the save began.
C29_FailedSaveCommitsNothing ==
    [][(SaveIteration /\ ~last'.ok) => expenses' = saving.before]_vars

\* the grants a step has put after the ones that were stored
Appended == SubSeq(grants', Len(grants) + 1, Len(grants'))

\* C30: a successful structured import leaves every stored grant and every
\* stored expense as it was and puts the created grants after them, one for
\* each row that has title, agency and number, in row order, each with an id
\* that no stored grant or expense and no other created grant has; when every
\* row is skipped the grants and expenses stay identical and the import
\* reports grantsCount = 0 and categoriesCount = 0.
C30_ImportAppendsOnly ==
    [][ ImportSucceeded =>
          LET kept == KeptRows(last'.data)
          IN /\ expenses' = expenses
             /\ Len(grants') = Len(grants) + Len(kept)
             /\ SubSeq(grants', 1, Len(grants)) = grants
             /\ \A k \in 1..Len(kept) :
                   /\ Appended[k].title = rowGrantData(kept[k]).title
                   /\ Appended[k].number = rowGrantData(kept[k]).number
                   /\ Appended[k].id \notin IdsOf(grants, expenses)
                   /\ \A j \in 1..Len(kept) : j # k => Appended[j].id # Appended[k].id
             /\ kept = <<>> =>
                   /\ grants' = grants
                   /\ last'.ret.grantsCount = 0
                   /\ last'.ret.categoriesCount = 0
      ]_vars

\* C30 witness: the import of two complete rows into the stored document has
\* put their grants, in row order and with two new ids, after the two stored
\* grants, and the stored expenses are as they were.
C30_Witness ==
    /\ last.op = ImportOp /\ last.ret.success
    /\ last.data = <<RowAliases, RowFull>>
    /\ Len(grants) = 4
    /\ grants[1] = StoredGrants[1] /\ grants[2] = StoredGrants[2]
    /\ grants[3].title = "T5" /\ grants[4].title = "T1"
    /\ grants[3].id \notin {1, 2} /\ grants[4].id \notin {1, 2, grants[3].id}
    /\ expenses = StoredExpenses

====
